---- MODULE Spec2Model ----
(***************************************************************************)
(* Video-ad-insertion: VideoPipeline.process_video, the three-stage        *)
(* AdVideoOrchestrator.generate_ad_video and the TempFileManager workspace *)
(* scope, as a state machine.                                              *)
(*                                                                         *)
(* Times are whole seconds.  A collaborator call (moviepy, demucs, whisper,*)
(* the chat model, OpenCV, the ComfyUI services) ends in one of            *)
(*   "ok"        it returned,                                              *)
(*   "error"     it raised an Exception,                                   *)
(*   "interrupt" a KeyboardInterrupt was raised while it ran.              *)
(***************************************************************************)
EXTENDS Integers, Sequences, FiniteSets, TLC

VARIABLES
    keepOnError,     \* settings.KEEP_TEMP_FILES_ON_ERROR
    fileExists,      \* video_path.exists()
    pc,              \* position inside process_video
    ws,              \* the workspace <cache>/<videoId>: [exists, files]
    outputs,         \* files under the output directory
    duration,        \* metadata.duration, 0 before it is measured
    candidates,      \* analysis.insertion_points
    profile,         \* scene.speaker_profile
    insertionPoint,  \* insertion_point
    insertionTime,   \* insertion_time
    keyframe,        \* the frame kept as keyframe
    scan,            \* the scoring loop: next candidate, whether the frame read last
                     \* showed a face, scored_points
    tierAccepted,    \* number of candidates accepted by the scoring loop
    catalog,         \* AdsManager.ads as select_ad_for_video reads it
    theme,           \* analysis.theme as select_ad_for_video reads it
    ad,              \* the selected ad
    adScript,        \* ad_script
    scriptContext,   \* the point whose context strings went into the ad copy
    refWindow,       \* clip_start and clip_end of the reference audio
    orch,            \* locals of generate_ad_video
    adResult,        \* AdVideoResult returned to process_video
    result,          \* ProcessingResult returned by process_video
    escaped,         \* exception that left process_video
    raisedAt,        \* position at which an Exception was raised in the try block
    started,         \* steps in the order they were begun
    succeeded,       \* steps that returned normally
    written,         \* artifacts the completed steps wrote into the workspace
    collabFailed,    \* a collaborator call ended in "error" or "interrupt"
    interrupted,     \* a KeyboardInterrupt was raised inside a call
    composeCalls,    \* invocations of VideoComposer.insert_ad_video
    composed,        \* what the last insert_ad_video call put together
    extractAudioParams, \* parameters VideoProcessor.extract_audio accepts
    req,             \* locals of ComfyUIClient._request
    poll,            \* locals of ComfyUIClient.wait_for_completion and the clock
    batch,           \* locals of batch_process
    app,             \* main: the command line, the position, the exit code
    scriptCall,      \* one call of LLMService.generate_ad_script
    scaleCall,       \* the scaler node in one call of _prepare_workflow
    speakerCall,     \* one call of SpeakerDetector.is_main_speaker_in_frame
    job,             \* one call of ComfyUIClient.run_workflow_and_download
    prep,            \* one call of a generative stage's _prepare_workflow
    sceneCall        \* one call of SpeakerDetector.analyze_video_scene

vars == <<keepOnError, fileExists, pc, ws, outputs, duration, candidates, profile,
          insertionPoint, insertionTime, keyframe, scan, tierAccepted, catalog, theme, ad, adScript,
          scriptContext, refWindow, orch, adResult, result, escaped, raisedAt, started, succeeded, written,
          collabFailed, interrupted, composeCalls, composed, extractAudioParams,
          req, poll, batch, app, scriptCall, scaleCall, speakerCall,
          job,
          prep,
          sceneCall>>

(***************************************************************************)
(* Settings and bounds                                                     *)
(***************************************************************************)
MIN_VIDEO_DURATION == 15
MAX_VIDEO_DURATION == 300
AD_SCRIPT_MIN_LENGTH == 15
AD_SCRIPT_MAX_LENGTH == 20
MIN_EDGE_LIMIT == 480
MaxAttempts == 2
INSERTION_POINT_AVOID_START == 3
INSERTION_POINT_AVOID_END == 5

\* bounds of the model
MaxCandidates == 2
\* candidate_points handed to _select_insertion_with_speaker on its own
MaxScored == 3
\* the largest timeout wait_for_completion is called with, in seconds
MaxTimeout == 5
\* the .mp4 files of a batch directory
MaxVideos == 2
\* the ads of config/ads.json
MaxAds == 2
\* the longest video for which every insertion time is tried
MaxWindowDuration == 24
\* the longest digital-human clip, in seconds
MaxAdDuration == 3
\* the faces detected in one frame
MaxFaces == 2
\* the nodes of a workflow template
MaxNodes == 2
\* the frames analyze_video_scene samples
MaxTracks == 3
\* every edge length up to MIN_EDGE_LIMIT + MaxEdgeOver is tried
MaxEdgeOver == 60
\* characters of the chat model's answer without the surrounding whitespace
MaxTextLen == 22
\* whitespace characters before and after the answer
MaxPad == 1

Durations == {14, 15, 300, 301}
Priorities == 1..3
\* face confidence in tenths
Confidences == {6, 9}
CandidateTimes(d) == {10, d}
ProfileTimes == {4, 12}
Outcomes == {"ok", "error", "interrupt"}

None == "None"
NoPoint == [time |-> 0, priority |-> 0]
NoProfile == [present |-> FALSE, best_frame_time |-> 0]
NoFrame == [src |-> "none", time |-> 0]
NoScan == [i |-> 1, scored |-> <<>>, face_seen |-> FALSE]
NoWindow == [clip_start |-> 0, clip_end |-> 0]
NoRequest == [pc |-> "idle", attempt |-> 0, outcomes |-> <<>>, response |-> 0,
              raised |-> None, slept |-> 0]
NoPoll == [pc |-> "idle", timeout |-> 0, now |-> 0, polls |-> <<>>, raised |-> None]
NoBatch == [pc |-> "idle", files |-> 0, i |-> 0, results |-> <<>>, raised |-> None]
NoApp == [pc |-> "idle", exists |-> FALSE, is_dir |-> FALSE, batch |-> FALSE,
          videos |-> 0, exit_code |-> -1]
NoAd == [id |-> 0, enabled |-> FALSE, priority |-> 0, target_scenarios |-> <<>>]
NoText == [lead |-> 0, body |-> 0, trail |-> 0]
NoTemplate == [category |-> None, text |-> None]
NoReturn == [raised |-> None, kind |-> None, text |-> NoText, template |-> NoTemplate]
NoChat == [kind |-> None, text |-> NoText]
NoScriptCall == [pc |-> "idle", templates |-> <<>>, video_category |-> None,
                 chat |-> NoChat, ret |-> NoReturn]
NoScaleCall == [pc |-> "idle", target_width |-> 0, target_height |-> 0,
                written |-> FALSE, capped |-> FALSE, scale_to_length |-> 0]
NoComposed == [raised |-> None, split_time |-> 0, segments |-> <<>>, duration |-> 0]
NoSpeakerCall == [pc |-> "idle", frame |-> [w |-> 0, h |-> 0], faces |-> <<>>,
                  avg_position |-> [x |-> 0, y |-> 0], is_main_speaker |-> FALSE,
                  best_face |-> 0]
NoAdResult == [returned |-> FALSE, success |-> FALSE, cleaned_image_path |-> None,
               cloned_audio_path |-> None, digital_human_video_path |-> None,
               error_message |-> None]
NoJob == [pc |-> "idle", timeout |-> 0, now |-> 0, requests |-> 0, polls |-> 0,
          last |-> [op |-> None, status |-> 0, body |-> [json |-> FALSE]],
          success_seen |-> FALSE, downloads |-> 0, saved |-> FALSE, raised |-> None]
NoPrep == [pc |-> "idle", stage |-> None, sized |-> FALSE, template |-> <<>>,
           cached |-> <<>>, workflow |-> <<>>]
NoCluster == [appearance_count |-> 0, sum_x |-> 0, sum_y |-> 0, sum_size |-> 0]
NoSceneCall == [pc |-> "idle", face_tracks |-> 0, frames_with_faces |-> 0, faces |-> <<>>,
                clusters |-> <<>>, is_single_speaker |-> FALSE,
                speaker_profile |-> NoCluster]

\* no single function is being called
UnitsIdle ==
    /\ scriptCall = NoScriptCall
    /\ scaleCall = NoScaleCall
    /\ speakerCall = NoSpeakerCall
    /\ job = NoJob
    /\ prep = NoPrep
    /\ sceneCall = NoSceneCall

InsertionPoints(d) == [time : CandidateTimes(d), priority : Priorities]

RECURSIVE SeqsUpTo(_, _)
SeqsUpTo(S, n) ==
    IF n = 0 THEN {<<>>}
    ELSE LET shorter == SeqsUpTo(S, n - 1)
         IN  shorter \cup {Append(s, x) : s \in {t \in shorter : Len(t) = n - 1}, x \in S}

\* what the scoring loop sees at one candidate
Unreadable == [kind |-> "unreadable", main |-> FALSE, conf |-> 0]
NoFace == [kind |-> "noface", main |-> FALSE, conf |-> 0]
FrameObs == {Unreadable, NoFace} \cup [kind : {"face"}, main : BOOLEAN, conf : Confidences]

(***************************************************************************)
(* Artifacts and steps                                                     *)
(***************************************************************************)
OriginalWav == "audio/original.wav"
VocalsWav == "audio/vocals.wav"
TranscriptionTxt == "transcriptions/transcription.txt"
SubtitlesSrt == "transcriptions/subtitles.srt"
ReferenceClip == "audio/reference_clip.wav"
ReferenceVocalsClip == "audio/reference_vocals_clip.wav"
KeyframeJpg == "keyframes/insertion_keyframe.jpg"
CleanedKeyframe == "ad_video/cleaned_keyframe.jpg"
AdVoiceWav == "ad_video/ad_voice.wav"
AdVideoMp4 == "ad_video/ad_video.mp4"
FinalOutput == "<videoId>_with_ad.mp4"

StepOrder == <<"metadata", "demux", "separation", "transcription", "planning",
               "scene", "scoring", "reference_audio", "keyframe", "ad_selection",
               "ad_copy", "image_cleanup", "voice_clone", "digital_human", "compose">>

StepIndex == [s \in {StepOrder[i] : i \in 1..Len(StepOrder)} |->
                 CHOOSE i \in 1..Len(StepOrder) : StepOrder[i] = s]

(***************************************************************************)
(* TempFileManager                                                         *)
(***************************************************************************)
NoWorkspace == [exists |-> FALSE, files |-> {}]

\* TempFileManager.__init__ / _ensure_directories
NewWorkspace(w) == [exists |-> TRUE, files |-> w.files]

\* a step writes a file below base_dir
WriteFile(w, f) == [exists |-> TRUE, files |-> w.files \cup {f}]

\* cleanup that takes the setting even when keep_on_error is passed
cleanup_ignoring_argument(w, keep_on_error) ==
    IF keepOnError THEN w
    ELSE IF w.exists THEN NoWorkspace ELSE w

\* TempFileManager.cleanup(keep_on_error); keep_on_error is "None", "True" or "False"
cleanup(w, keep_on_error) ==
    LET keep == IF keep_on_error = "None" THEN keepOnError ELSE keep_on_error = "True"
    IN  IF keep THEN w
        ELSE IF w.exists THEN NoWorkspace ELSE w

\* __exit__ that cleans whenever the scope ends
exit_always_cleaning(w, exc) == cleanup(w, "False")

\* TempFileManager.__exit__(exc_type, ...): exc is TRUE when exc_type is not None
exit(w, exc) ==
    IF exc /\ keepOnError THEN w
    ELSE IF ~exc THEN cleanup(w, "False") ELSE w

\* AudioSeparator.separate_simple(audio_path, output_path) with output_path in
\* audio/: separate() moves the demucs stem to <output_dir>/vocals.wav, then
\* separate_simple renames that file to output_path when the two differ
separate_simple(w, output_path) ==
    LET final_path == "audio/vocals.wav"
        moved == [exists |-> TRUE, files |-> w.files \cup {final_path}]
    IN  IF final_path # output_path
        THEN [exists |-> TRUE, files |-> (moved.files \ {final_path}) \cup {output_path}]
        ELSE moved

(***************************************************************************)
(* process_video: results                                                  *)
(***************************************************************************)
NoResult == [returned |-> FALSE, success |-> FALSE, output_video_path |-> None,
             error_message |-> None, insertion_time |-> 0,
             digital_human_video |-> None]

FailureResult(msg) == [returned |-> TRUE, success |-> FALSE, output_video_path |-> None,
                       error_message |-> msg, insertion_time |-> 0,
                       digital_human_video |-> None]

SuccessResult(path, t, dh) == [returned |-> TRUE, success |-> TRUE,
                               output_video_path |-> path, error_message |-> None,
                               insertion_time |-> t, digital_human_video |-> dh]

\* a handler that raises again instead of returning a result
ExceptHandler_reraising(msg) == NoResult

\* `except Exception as e` of process_video: the handler's ProcessingResult
ExceptHandler(msg) == FailureResult(msg)

\* An Exception raised inside `with TempFileManager(...)`: __exit__ runs with the
\* exception, then the except clause returns the failure result.
Raise(msg) ==
    /\ ws' = exit(ws, TRUE)
    /\ result' = ExceptHandler(msg)
    /\ raisedAt' = pc
    /\ pc' = "done"
    /\ UNCHANGED escaped

\* a KeyboardInterrupt handled like an Exception
Interrupt_as_failure ==
    /\ ws' = exit(ws, TRUE)
    /\ result' = FailureResult("KeyboardInterrupt")
    /\ raisedAt' = pc
    /\ pc' = "done"
    /\ UNCHANGED escaped

\* A KeyboardInterrupt raised inside the with block: __exit__ runs with the
\* exception; `except Exception` does not catch a BaseException.
Interrupt ==
    /\ ws' = exit(ws, TRUE)
    /\ escaped' = "KeyboardInterrupt"
    /\ pc' = "done"
    /\ UNCHANGED <<result, raisedAt>>

\* a collaborator call that did not return
Abort(o, msg) ==
    /\ o # "ok"
    /\ collabFailed' = TRUE
    /\ interrupted' = (interrupted \/ o = "interrupt")
    /\ IF o = "error" THEN Raise(msg) ELSE Interrupt

Begin(step) == started' = Append(started, step)
Complete(step) == succeeded' = succeeded \cup {step}

\* def extract_audio(self, output_path, fps=44100)
extract_audio_signature == {"output_path", "fps"}

(***************************************************************************)
(* Initial state: process_video is called                                  *)
(***************************************************************************)
Stages == {"image_cleanup", "voice_clone", "digital_human"}

\* locals of generate_ad_video: the caller, clean_image, the loop variable attempt,
\* last_err, cleaned_image_path, and the outcome of every service call so far
NoOrch == [caller |-> "none", clean_image |-> TRUE, attempt |-> 0, last_err |-> FALSE,
           calls |-> [s \in Stages |-> <<>>], cleaned_image_path |-> None]

Init ==
    /\ keepOnError \in BOOLEAN
    /\ fileExists \in BOOLEAN
    /\ pc = "start"
    /\ ws = NoWorkspace
    /\ outputs = {}
    /\ duration = 0
    /\ candidates = <<>>
    /\ profile = NoProfile
    /\ insertionPoint = NoPoint
    /\ insertionTime = 0
    /\ keyframe = NoFrame
    /\ scan = NoScan
    /\ tierAccepted = 0
    /\ catalog = <<>>
    /\ theme = <<>>
    /\ ad = NoAd
    /\ adScript = None
    /\ scriptContext = NoPoint
    /\ refWindow = NoWindow
    /\ orch = NoOrch
    /\ adResult = NoAdResult
    /\ result = NoResult
    /\ escaped = None
    /\ raisedAt = None
    /\ started = <<>>
    /\ succeeded = {}
    /\ written = {}
    /\ collabFailed = FALSE
    /\ interrupted = FALSE
    /\ composeCalls = 0
    /\ composed = NoComposed
    /\ req = NoRequest
    /\ poll = NoPoll
    /\ batch = NoBatch
    /\ UnitsIdle
    /\ app = NoApp
    /\ extractAudioParams = extract_audio_signature

settingVars == <<keepOnError, fileExists, extractAudioParams>>
planVars == <<duration, candidates, profile>>
choiceVars == <<insertionPoint, insertionTime, keyframe, scan, tierAccepted>>
windowVars == <<refWindow>>
unitVars == <<scriptCall, scaleCall, speakerCall, job, prep, sceneCall>>
clientVars == <<req, poll, unitVars>>
callerVars == <<batch, app>>
adVars == <<catalog, theme, ad, adScript, scriptContext>>
orchVars == <<orch, adResult, composeCalls, composed>>
outcomeVars == <<result, escaped, raisedAt, collabFailed, interrupted>>

(***************************************************************************)
(* process_video, phases 1 and 2                                           *)
(***************************************************************************)
\* lines 81-108: the existence check, the output directory, the workspace scope
StartProcessing ==
    /\ pc = "start"
    /\ IF ~fileExists
       THEN /\ result' = FailureResult("video file does not exist")
            /\ pc' = "done"
            /\ UNCHANGED ws
       ELSE /\ ws' = NewWorkspace(ws)
            /\ pc' = "metadata"
            /\ UNCHANGED result
    /\ UNCHANGED <<settingVars, clientVars, callerVars, windowVars, outputs, planVars, choiceVars, adVars, orchVars,
                   escaped, raisedAt, collabFailed, interrupted, started, succeeded, written>>

\* the policy without its upper limit
DurationPolicy_without_upper_limit(d) ==
    IF d < MIN_VIDEO_DURATION THEN "short" ELSE "ok"

\* lines 121-130: the two duration checks
DurationPolicy(d) ==
    IF d < MIN_VIDEO_DURATION THEN "short"
    ELSE IF d > MAX_VIDEO_DURATION THEN "long"
    ELSE "ok"

\* lines 116-130: extract_metadata and the duration policy
ExtractMetadata ==
    /\ pc = "metadata"
    /\ Begin("metadata")
    /\ \E o \in Outcomes, d \in Durations :
         IF o # "ok"
         THEN /\ Abort(o, "metadata")
              /\ UNCHANGED <<duration, succeeded>>
         ELSE /\ duration' = d
              /\ UNCHANGED <<collabFailed, interrupted>>
              /\ IF DurationPolicy(d) = "short"
                 THEN Raise("video too short") /\ UNCHANGED succeeded
                 ELSE IF DurationPolicy(d) = "long"
                 THEN Raise("video too long") /\ UNCHANGED succeeded
                 ELSE /\ Complete("metadata")
                      /\ pc' = "demux"
                      /\ UNCHANGED <<ws, result, escaped, raisedAt>>
    /\ UNCHANGED <<settingVars, clientVars, callerVars, windowVars, outputs, candidates, profile, choiceVars, adVars,
                   orchVars, written>>

\* a collaborator call that writes the files fs into the workspace on success
CollaboratorStep(at, step, fs, next) ==
    /\ pc = at
    /\ Begin(step)
    /\ \E o \in Outcomes :
         IF o # "ok"
         THEN /\ Abort(o, step)
              /\ UNCHANGED <<succeeded, written>>
         ELSE /\ ws' = [exists |-> TRUE, files |-> ws.files \cup fs]
              /\ written' = written \cup fs
              /\ Complete(step)
              /\ pc' = next
              /\ UNCHANGED outcomeVars

\* lines 132-139: VideoProcessor.extract_audio(original_audio_path)
ExtractAudio ==
    /\ CollaboratorStep("demux", "demux", {OriginalWav}, "separation")
    /\ UNCHANGED <<settingVars, clientVars, callerVars, windowVars, outputs, planVars, choiceVars, adVars, orchVars>>

\* lines 141-149: AudioSeparator.separate_simple(audio_path, separated_vocals_path)
SeparateVocals ==
    /\ pc = "separation"
    /\ Begin("separation")
    /\ \E o \in Outcomes :
         IF o # "ok"
         THEN /\ Abort(o, "separation")
              /\ UNCHANGED <<succeeded, written>>
         ELSE /\ ws' = separate_simple(ws, VocalsWav)
              /\ written' = written \cup {VocalsWav}
              /\ Complete("separation")
              /\ pc' = "transcription"
              /\ UNCHANGED outcomeVars
    /\ UNCHANGED <<settingVars, clientVars, callerVars, windowVars, outputs, planVars, choiceVars, adVars, orchVars>>

\* lines 158-176: ASRService.transcribe, then the two save_text calls
Transcribe ==
    /\ CollaboratorStep("transcription", "transcription",
                        {TranscriptionTxt, SubtitlesSrt}, "planning")
    /\ UNCHANGED <<settingVars, clientVars, callerVars, windowVars, outputs, planVars, choiceVars, adVars, orchVars>>

\* lines 178-198: LLMService.analyze_video_content; the candidates come back as the
\* chat model listed them
AnalyzeContent ==
    /\ pc = "planning"
    /\ Begin("planning")
    /\ \E o \in Outcomes :
         IF o # "ok"
         THEN /\ Abort(o, "planning")
              /\ UNCHANGED <<candidates, succeeded>>
         ELSE /\ candidates' \in SeqsUpTo(InsertionPoints(duration), MaxCandidates)
              /\ Complete("planning")
              /\ pc' = "scene"
              /\ UNCHANGED <<ws, outcomeVars>>
    /\ UNCHANGED <<settingVars, clientVars, callerVars, windowVars, outputs, duration, profile, choiceVars, adVars,
                   orchVars, written>>

\* lines 207-218: SpeakerDetector.analyze_video_scene; a scene without a main
\* speaker only logs a warning
AnalyzeScene ==
    /\ pc = "scene"
    /\ Begin("scene")
    /\ \E o \in Outcomes :
         IF o # "ok"
         THEN /\ Abort(o, "scene")
              /\ UNCHANGED <<profile, succeeded>>
         ELSE /\ profile' \in {NoProfile} \cup
                              [present : {TRUE}, best_frame_time : ProfileTimes]
              /\ Complete("scene")
              /\ pc' = "scoring"
              /\ UNCHANGED <<ws, outcomeVars>>
    /\ UNCHANGED <<settingVars, clientVars, callerVars, windowVars, outputs, duration, candidates, choiceVars, adVars,
                   orchVars, written>>

(***************************************************************************)
(* process_video, phase 3: the insertion point                             *)
(***************************************************************************)
\* lines 227-231: no candidate at all is fatal
CheckCandidates ==
    /\ pc = "scoring"
    /\ IF candidates = <<>>
       THEN /\ Raise("LLM found no insertion point")
            /\ UNCHANGED <<started, scan>>
       ELSE /\ Begin("scoring")
            /\ scan' = NoScan
            /\ pc' = "scan"
            /\ UNCHANGED <<ws, result, escaped, raisedAt>>
    /\ UNCHANGED <<settingVars, clientVars, callerVars, windowVars, outputs, planVars, insertionPoint, insertionTime,
                   keyframe, tierAccepted, adVars, orchVars, collabFailed, interrupted, succeeded,
                   written>>

\* the weights of the two terms exchanged
combined_score_weights_swapped(point, obs, hasProfile) ==
    IF hasProfile
    THEN (4 - point.priority) * 30 + obs.conf * 6
    ELSE (4 - point.priority) * 10 + obs.conf * 3

\* lines 538-540 and 556-557, times 150 and times 60: the combined score
combined_score(point, obs, hasProfile) ==
    IF hasProfile
    THEN (4 - point.priority) * 20 + obs.conf * 9
    ELSE (4 - point.priority) * 10 + obs.conf * 3

\* the main-speaker test applied whether or not there is a profile
Accepted_always_testing_speaker(obs, hasProfile) ==
    /\ obs.kind = "face"
    /\ obs.main

\* lines 511-535: the candidate is scored unless its frame is unreadable, shows no
\* face, or (with a profile) does not show the main speaker
Accepted(obs, hasProfile) ==
    /\ obs.kind = "face"
    /\ hasProfile => obs.main

\* lines 505-569: one iteration of the loop over candidate_points
ScanCandidate ==
    /\ pc = "scan"
    /\ scan.i <= Len(candidates)
    /\ \E o \in Outcomes, obs \in FrameObs :
         IF o # "ok"
         THEN /\ Abort(o, "scoring")
              /\ UNCHANGED scan
         ELSE /\ scan' = [i |-> scan.i + 1,
                          face_seen |-> obs.kind = "face",
                          scored |-> IF Accepted(obs, profile.present)
                                     THEN Append(scan.scored,
                                            [point |-> candidates[scan.i],
                                             score |-> combined_score(candidates[scan.i],
                                                          obs, profile.present),
                                             face_confidence |-> obs.conf])
                                     ELSE scan.scored]
              /\ UNCHANGED <<pc, ws, outcomeVars>>
    /\ UNCHANGED <<settingVars, clientVars, callerVars, windowVars, outputs, planVars, insertionPoint, insertionTime,
                   keyframe, tierAccepted, adVars, orchVars, started, succeeded,
                   written>>

\* max(scored_points, key=score): the first entry with the largest score
Best(scored) ==
    LET i == CHOOSE k \in 1..Len(scored) :
                 /\ \A j \in 1..Len(scored) : scored[j].score <= scored[k].score
                 /\ \A j \in 1..(k - 1) : scored[j].score < scored[k].score
    IN  scored[i]

\* the frame before time t, read by _select_insertion_with_speaker
CandidateFrame(t) == [src |-> "candidate", time |-> t]

\* the fallback keeping the frame of the first candidate
ProfileFrame_of_first_candidate(t) == [src |-> "candidate", time |-> t]

\* speaker_profile.best_frame
ProfileFrame(t) == [src |-> "profile", time |-> t]

\* the fallback taken whenever no candidate was scored
Tier_without_profile_test(scored, speaker_profile) ==
    IF scored # <<>> THEN "A" ELSE "B"

\* lines 234-260: `if insertion_point is None and scene.speaker_profile` /
\* `elif insertion_point is None`
Tier(scored, speaker_profile) ==
    IF scored # <<>> THEN "A"
    ELSE IF speaker_profile.present THEN "B"
    ELSE "C"

\* lines 573-585 and 234-263: the best scored candidate, else the profile's best
\* frame with the first candidate's context, else no usable insertion point.
\* scored_points is a local of _select_insertion_with_speaker; the planner's list
\* and the scene are not read again after line 263, and the model drops them here.
ChooseInsertion ==
    /\ pc = "scan"
    /\ scan.i > Len(candidates)
    /\ tierAccepted' = Len(scan.scored)
    /\ scan' = NoScan
    /\ IF Tier(scan.scored, profile) = "A"
       THEN /\ insertionPoint' = Best(scan.scored).point
            /\ keyframe' = CandidateFrame(Best(scan.scored).point.time)
            /\ insertionTime' = Best(scan.scored).point.time
            /\ Complete("scoring")
            /\ pc' = "refclip"
            /\ candidates' = <<>>
            /\ profile' = NoProfile
            /\ UNCHANGED <<ws, result, escaped, raisedAt>>
       ELSE IF Tier(scan.scored, profile) = "B"
       THEN /\ keyframe' = ProfileFrame(profile.best_frame_time)
            /\ insertionTime' = profile.best_frame_time
            /\ insertionPoint' = candidates[1]
            /\ Complete("scoring")
            /\ pc' = "refclip"
            /\ candidates' = <<>>
            /\ profile' = NoProfile
            /\ UNCHANGED <<ws, result, escaped, raisedAt>>
       ELSE /\ Raise("no usable insertion point")
            /\ UNCHANGED <<insertionPoint, insertionTime, keyframe, succeeded,
                           candidates, profile>>
    /\ UNCHANGED <<settingVars, clientVars, callerVars, windowVars, outputs, duration, adVars, orchVars,
                   collabFailed, interrupted, started, written>>

(***************************************************************************)
(* process_video, phase 3: the reference audio                             *)
(***************************************************************************)
Max(a, b) == IF a >= b THEN a ELSE b
Min(a, b) == IF a <= b THEN a ELSE b

\* the ten seconds around t, not clamped to the video
ReferenceWindow_unclamped(t, d) ==
    [clip_start |-> t - 5, clip_end |-> t + 5]

\* lines 268-279: the reference window around insertion time t in a video of
\* duration d
ReferenceWindow(t, d) ==
    LET audio_clip_duration == 10
        min_clip_duration == 5
        clip_start == Max(0, t - audio_clip_duration \div 2)
        clip_end == Min(d, t + audio_clip_duration \div 2)
    IN  IF clip_end - clip_start < min_clip_duration
        THEN IF clip_start = 0
             THEN [clip_start |-> clip_start, clip_end |-> Min(min_clip_duration, d)]
             ELSE [clip_start |-> Max(0, d - min_clip_duration), clip_end |-> clip_end]
        ELSE [clip_start |-> clip_start, clip_end |-> clip_end]

\* keyword arguments of the call at lines 286-290
ReferenceClipKwargs == {"start_time", "end_time"}

\* lines 283-290: processor.extract_audio(path, start_time=..., end_time=...); a
\* keyword the method does not declare is a TypeError before its body runs
ExtractReferenceClip ==
    /\ pc = "refclip"
    /\ Begin("reference_audio")
    /\ refWindow' = ReferenceWindow(insertionTime, duration)
    /\ IF ~(ReferenceClipKwargs \subseteq extractAudioParams)
       THEN /\ Raise("TypeError: unexpected keyword argument 'start_time'")
            /\ UNCHANGED <<written, collabFailed, interrupted>>
       ELSE \E o \in Outcomes :
              IF o # "ok"
              THEN /\ Abort(o, "reference_audio")
                   /\ UNCHANGED written
              ELSE /\ ws' = WriteFile(ws, ReferenceClip)
                   /\ written' = written \cup {ReferenceClip}
                   /\ pc' = "refsep"
                   /\ UNCHANGED outcomeVars
    /\ UNCHANGED <<settingVars, clientVars, callerVars, outputs, planVars, choiceVars, adVars, orchVars,
                   succeeded>>

\* lines 292-301: separate_simple(reference_clip, reference_vocals_clip)
SeparateReferenceClip ==
    /\ pc = "refsep"
    /\ \E o \in Outcomes :
         IF o # "ok"
         THEN /\ Abort(o, "reference_audio")
              /\ UNCHANGED <<succeeded, written>>
         ELSE /\ ws' = separate_simple(ws, ReferenceVocalsClip)
              /\ written' = written \cup {ReferenceVocalsClip}
              /\ Complete("reference_audio")
              /\ pc' = "keyframe"
              /\ UNCHANGED outcomeVars
    /\ UNCHANGED <<settingVars, clientVars, callerVars, windowVars, outputs, planVars, choiceVars, adVars, orchVars,
                   started>>

\* lines 303-318: the keyframe is saved, then its faces are detected for the log
SaveKeyframe ==
    /\ CollaboratorStep("keyframe", "keyframe", {KeyframeJpg}, "ad_selection")
    /\ UNCHANGED <<settingVars, clientVars, callerVars, windowVars, outputs, planVars, choiceVars, adVars, orchVars>>

\* what AdsManager.select_ad_for_video can return
\* a string is the sequence of its characters
Themes == {<<>>, <<"a">>, <<"b", "a">>, <<"c">>}
ScenarioLists == {<<>>, << <<>> >>, << <<"a">> >>, << <<"b">>, <<"a", "b">> >>}
AdPriorities == {1, 2}

\* AdConfig: the fields select_ad_for_video and get_primary_ad read
AdConfigs == [id : 1..MaxAds, enabled : BOOLEAN, priority : AdPriorities,
              target_scenarios : ScenarioLists]

\* the ads of config/ads.json in file order; the id of an ad is its position
Catalogs == {c \in SeqsUpTo(AdConfigs, MaxAds) : \A i \in 1..Len(c) : c[i].id = i}

\* _create_default_config: the one enabled ad used without config/ads.json
DefaultAd == [id |-> 1, enabled |-> TRUE, priority |-> 1,
              target_scenarios |-> << <<"a">> >>]

\* Python `s in t` on strings: s occurs in t as a run of consecutive characters
IsSubstring(s, t) ==
    \E i \in 1..(Len(t) - Len(s) + 1) : SubSeq(t, i, i + Len(s) - 1) = s

\* every ad counted as enabled
get_enabled_ads_ignoring_flag(ads) == ads

\* get_enabled_ads: [ad for ad in self.ads if ad.enabled]
get_enabled_ads(ads) == SelectSeq(ads, LAMBDA a : a.enabled)

\* get_primary_ad: the stable sort by priority puts first the earliest of the
\* enabled ads with the smallest priority number
get_primary_ad(ads) ==
    LET enabled_ads == get_enabled_ads(ads)
    IN  IF enabled_ads = <<>> THEN NoAd
        ELSE LET least(i) == \A j \in 1..Len(enabled_ads) :
                                enabled_ads[i].priority <= enabled_ads[j].priority
                 first == CHOOSE i \in 1..Len(enabled_ads) :
                             /\ least(i)
                             /\ \A j \in 1..(i - 1) : ~least(j)
             IN  enabled_ads[first]

\* line 182: any(scenario in video_theme for scenario in ad.target_scenarios)
MatchesTheme(a, video_theme) ==
    \E k \in 1..Len(a.target_scenarios) : IsSubstring(a.target_scenarios[k], video_theme)

\* select_ad_for_video, NoAd standing for None
select_ad_for_video(ads, video_theme) ==
    LET enabled_ads == get_enabled_ads(ads)
        hits == {i \in 1..Len(enabled_ads) : MatchesTheme(enabled_ads[i], video_theme)}
    IN  IF enabled_ads = <<>> THEN NoAd
        ELSE IF hits # {}
        THEN enabled_ads[CHOOSE i \in hits : \A j \in hits : i <= j]
        ELSE get_primary_ad(ads)

\* lines 320-329: select_ad_for_video(analysis.theme); no ad is fatal
SelectAdFrom(catalogs, themes) ==
    /\ pc = "ad_selection"
    /\ Begin("ad_selection")
    /\ \E c \in catalogs, th \in themes :
         LET a == select_ad_for_video(c, th)
         IN  /\ catalog' = c
             /\ theme' = th
             /\ IF a = NoAd
                THEN /\ Raise("no ad available")
                     /\ UNCHANGED <<ad, succeeded>>
                ELSE /\ ad' = a
                     /\ Complete("ad_selection")
                     /\ pc' = "ad_copy"
                     /\ UNCHANGED <<ws, result, escaped, raisedAt>>
    /\ UNCHANGED <<settingVars, clientVars, callerVars, windowVars, outputs, planVars, choiceVars, adScript,
                   scriptContext, orchVars,
                   collabFailed, interrupted, written>>

\* process_video with no ad enabled, or with the default ad
SelectAd == SelectAdFrom({<<>>, <<DefaultAd>>}, {<<"a">>})

\* process_video with any catalog and any theme
SelectAdOfCatalog == SelectAdFrom(Catalogs, Themes)

\* what LLMService.generate_ad_script can return: the model text, its first
\* AD_SCRIPT_MAX_LENGTH characters, or the ad's template
Scripts == {"model text", "truncated text", "template"}

\* lines 331-345: generate_ad_script catches every Exception of the chat call and
\* returns the template instead
GenerateAdScript ==
    /\ pc = "ad_copy"
    /\ Begin("ad_copy")
    /\ \E o \in Outcomes, text \in Scripts :
         IF o = "interrupt"
         THEN /\ collabFailed' = TRUE
              /\ interrupted' = TRUE
              /\ Interrupt
              /\ UNCHANGED <<adScript, scriptContext, succeeded>>
         ELSE /\ adScript' = IF o = "error" THEN "template" ELSE text
              /\ scriptContext' = insertionPoint
              /\ collabFailed' = (collabFailed \/ o = "error")
              /\ UNCHANGED interrupted
              /\ Complete("ad_copy")
              /\ pc' = "phase4"
              /\ UNCHANGED <<ws, result, escaped, raisedAt>>
    /\ UNCHANGED <<settingVars, clientVars, callerVars, windowVars, outputs, planVars, choiceVars, catalog, theme, ad, orchVars, written>>

(***************************************************************************)
(* AdVideoOrchestrator.generate_ad_video                                   *)
(***************************************************************************)
\* process_video lines 354-365: generate_ad_video_simple(keyframe_path,
\* reference_vocals_clip_path, ad_script, base_dir/ad_video)
StartAdGeneration ==
    /\ pc = "phase4"
    /\ orch' = [NoOrch EXCEPT !.caller = "process_video", !.clean_image = TRUE]
    /\ pc' = "generate_ad_video"
    /\ UNCHANGED <<settingVars, clientVars, callerVars, windowVars, ws, outputs, planVars, choiceVars, adVars, adResult,
                   composeCalls, composed, outcomeVars, started, succeeded, written>>

\* lines 82-100 and 122-131: with clean_image the cleanup loop starts, without it
\* the keyframe itself is the face image
EnterGenerateAdVideo ==
    /\ pc = "generate_ad_video"
    /\ IF orch.clean_image
       THEN /\ orch' = [orch EXCEPT !.attempt = 1, !.last_err = FALSE]
            /\ pc' = "clean"
       ELSE /\ orch' = [orch EXCEPT !.attempt = 1, !.last_err = FALSE,
                                    !.cleaned_image_path = KeyframeJpg]
            /\ pc' = "voice"
    /\ UNCHANGED <<settingVars, clientVars, callerVars, windowVars, ws, outputs, planVars, choiceVars, adVars, adResult,
                   composeCalls, composed, outcomeVars, started, succeeded, written>>

\* lines 193-198
AdSuccess(o) == [returned |-> TRUE, success |-> TRUE,
                 cleaned_image_path |-> o.cleaned_image_path,
                 cloned_audio_path |-> AdVoiceWav,
                 digital_human_video_path |-> AdVideoMp4, error_message |-> None]

\* lines 200-211: `except Exception` of generate_ad_video
AdFailure(msg) == [returned |-> TRUE, success |-> FALSE, cleaned_image_path |-> "",
                   cloned_audio_path |-> "", digital_human_video_path |-> "",
                   error_message |-> msg]

\* generate_ad_video returns r to its caller
ReturnAdResult(r) ==
    /\ adResult' = r
    /\ pc' = IF orch.caller = "process_video" THEN "adcheck" ELSE "done"
    /\ UNCHANGED <<result, escaped, raisedAt>>

\* a KeyboardInterrupt inside a stage attempt passes every `except Exception`
OrchInterrupt ==
    /\ collabFailed' = TRUE
    /\ interrupted' = TRUE
    /\ UNCHANGED adResult
    /\ IF orch.caller = "process_video"
       THEN Interrupt
       ELSE /\ escaped' = "KeyboardInterrupt"
            /\ pc' = "done"
            /\ UNCHANGED <<ws, result, raisedAt>>

\* range(1, 4)
LoopExhausted_one_later(attempt) == attempt >= MaxAttempts + 1

\* `for attempt in range(1, 3)`: the pass with this attempt number is the last
LoopExhausted(attempt) == attempt >= MaxAttempts

\* the fatal stages without the raise after the loop
RaisesAfterLoop_never(last_err) == FALSE

\* lines 150-151 and 180-181: `if last_err: raise last_err` after the loop
RaisesAfterLoop(last_err) == last_err

\* the for-else leaving cleaned_image_path at the file that was never written
FallbackImage_missing == CleanedKeyframe

\* line 121: the for-else sets cleaned_image_path = keyframe_image_path
FallbackImage == KeyframeJpg

\* the first attempt of a stage begins the stage
BeginStage(stage) ==
    started' = IF orch.attempt = 1 THEN Append(started, stage) ELSE started

Called(stage, o) == [orch EXCEPT !.calls[stage] = Append(@, o)]

\* lines 104-121: one pass of `for attempt in range(1, 3)` around
\* clean_image_simple, with the for-else that falls back to the keyframe
CleanImageAttempt ==
    /\ pc = "clean"
    /\ BeginStage("image_cleanup")
    /\ \E o \in Outcomes :
         CASE o = "ok" ->
                /\ ws' = WriteFile(ws, CleanedKeyframe)
                /\ written' = written \cup {CleanedKeyframe}
                /\ orch' = [Called("image_cleanup", o) EXCEPT
                               !.attempt = 1, !.last_err = FALSE,
                               !.cleaned_image_path = CleanedKeyframe]
                /\ Complete("image_cleanup")
                /\ pc' = "voice"
                /\ UNCHANGED <<adResult, outcomeVars>>
           [] o = "error" ->
                /\ collabFailed' = TRUE
                /\ UNCHANGED interrupted
                /\ IF ~LoopExhausted(orch.attempt)
                   THEN /\ orch' = [Called("image_cleanup", o) EXCEPT
                                       !.attempt = @ + 1, !.last_err = TRUE]
                        /\ UNCHANGED pc
                   ELSE /\ orch' = [Called("image_cleanup", o) EXCEPT
                                       !.attempt = 1, !.last_err = FALSE,
                                       !.cleaned_image_path = FallbackImage]
                        /\ pc' = "voice"
                /\ UNCHANGED <<ws, written, succeeded, adResult, result, escaped,
                               raisedAt>>
           [] o = "interrupt" ->
                /\ orch' = Called("image_cleanup", o)
                /\ OrchInterrupt
                /\ UNCHANGED <<written, succeeded>>
    /\ UNCHANGED <<settingVars, clientVars, callerVars, windowVars, outputs, planVars, choiceVars, adVars, composeCalls, composed>>

\* lines 134-153 and 162-183: one pass of `for attempt in range(1, 3)` around a
\* service call that writes `file`; after the loop `if last_err: raise last_err`
FatalStageAttempt(stage, file, o, whenPassed) ==
    CASE o = "ok" ->
           /\ ws' = WriteFile(ws, file)
           /\ written' = written \cup {file}
           /\ IF RaisesAfterLoop(orch.last_err)
              THEN /\ orch' = Called(stage, o)
                   /\ ReturnAdResult(AdFailure(stage))
                   /\ UNCHANGED succeeded
              ELSE /\ Complete(stage)
                   /\ whenPassed
           /\ UNCHANGED <<collabFailed, interrupted>>
      [] o = "error" ->
           /\ collabFailed' = TRUE
           /\ UNCHANGED interrupted
           /\ IF ~LoopExhausted(orch.attempt)
              THEN /\ orch' = [Called(stage, o) EXCEPT !.attempt = @ + 1,
                                                      !.last_err = TRUE]
                   /\ UNCHANGED <<pc, adResult, result, escaped, raisedAt, succeeded>>
              ELSE IF RaisesAfterLoop(TRUE)
              THEN /\ orch' = [Called(stage, o) EXCEPT !.last_err = TRUE]
                   /\ ReturnAdResult(AdFailure(stage))
                   /\ UNCHANGED succeeded
              ELSE /\ Complete(stage)
                   /\ whenPassed
           /\ UNCHANGED <<ws, written>>
      [] o = "interrupt" ->
           /\ orch' = Called(stage, o)
           /\ OrchInterrupt
           /\ UNCHANGED <<written, succeeded>>

\* lines 126-153: the voice-clone stage
VoiceCloneAttempt ==
    /\ pc = "voice"
    /\ BeginStage("voice_clone")
    /\ \E o \in Outcomes :
         FatalStageAttempt("voice_clone", AdVoiceWav, o,
             /\ orch' = [Called("voice_clone", o) EXCEPT !.attempt = 1,
                                                         !.last_err = FALSE]
             /\ pc' = "dh"
             /\ UNCHANGED <<adResult, result, escaped, raisedAt>>)
    /\ UNCHANGED <<settingVars, clientVars, callerVars, windowVars, outputs, planVars, choiceVars, adVars, composeCalls, composed>>

\* lines 155-198: the digital-human stage and the success result
DigitalHumanAttempt ==
    /\ pc = "dh"
    /\ BeginStage("digital_human")
    /\ \E o \in Outcomes :
         FatalStageAttempt("digital_human", AdVideoMp4, o,
             /\ orch' = Called("digital_human", o)
             /\ ReturnAdResult(AdSuccess(orch)))
    /\ UNCHANGED <<settingVars, clientVars, callerVars, windowVars, outputs, planVars, choiceVars, adVars, composeCalls, composed>>

(***************************************************************************)
(* process_video, phases 4 and 5 after generate_ad_video has returned      *)
(***************************************************************************)
\* the result of generate_ad_video taken as good without looking at it
AdResultOk_unchecked(r) == TRUE

\* line 367: `if not ad_result.success`
AdResultOk(r) == r.success

\* lines 367-370: a failed AdVideoResult is raised as an Exception
CheckAdResult ==
    /\ pc = "adcheck"
    /\ IF ~AdResultOk(adResult)
       THEN Raise("digital human video generation failed")
       ELSE /\ pc' = "compose"
            /\ UNCHANGED <<ws, result, escaped, raisedAt>>
    /\ UNCHANGED <<settingVars, clientVars, callerVars, windowVars, outputs, planVars, choiceVars, adVars, orchVars,
                   collabFailed, interrupted, started, succeeded, written>>

\* a piece of video: seconds [start, end) of the host video or of the ad clip
Segment(src, start, end) == [src |-> src, start |-> start, end |-> end]

RECURSIVE TotalDuration(_)
TotalDuration(segments) ==
    IF segments = <<>> THEN 0
    ELSE (Head(segments).end - Head(segments).start) + TotalDuration(Tail(segments))

\* split_video_at_time lines 53-58: a ValueError unless 0 < split_time < duration,
\* else subclipped(0, split_time) and subclipped(split_time, video.duration)
SplitTimeValid(split_time, video_duration) ==
    ~(split_time <= 0 \/ split_time >= video_duration)

split_video_at_time(split_time, video_duration) ==
    <<Segment("host", 0, split_time), Segment("host", split_time, video_duration)>>

\* the ad clip put after both parts of the host video
video_paths_ad_last(parts, ad_duration) ==
    <<parts[1], parts[2], Segment("ad", 0, ad_duration)>>

\* insert_ad_video line 203: video_paths = [part1_path, ad_video_path, part2_path]
video_paths(parts, ad_duration) ==
    <<parts[1], Segment("ad", 0, ad_duration), parts[2]>>

\* insert_ad_video lines 190-219: split, concatenate_videos(method="compose")
insert_ad_video(video_duration, ad_duration, insertion_time) ==
    IF ~SplitTimeValid(insertion_time, video_duration)
    THEN [NoComposed EXCEPT !.raised = "ValueError", !.split_time = insertion_time]
    ELSE LET clips == video_paths(split_video_at_time(insertion_time, video_duration),
                                  ad_duration)
         IN  [raised |-> None, split_time |-> insertion_time, segments |-> clips,
              duration |-> TotalDuration(clips)]

\* lines 381-415: insert_ad_video at insertion_point.time, then the success result
\* is returned from inside the with block, whose __exit__ runs without exception
Compose ==
    /\ pc = "compose"
    /\ Begin("compose")
    /\ composeCalls' = composeCalls + 1
    /\ \E o \in Outcomes, ad_duration \in 1..MaxAdDuration :
         LET call == insert_ad_video(duration, ad_duration, insertionPoint.time)
         IN  IF o # "ok"
             THEN /\ Abort(o, "compose")
                  /\ UNCHANGED <<outputs, succeeded, composed>>
             ELSE IF call.raised # None
             THEN /\ composed' = call
                  /\ Raise("split time outside the video")
                  /\ UNCHANGED <<outputs, succeeded, collabFailed, interrupted>>
             ELSE /\ composed' = call
                  /\ outputs' = outputs \cup {FinalOutput}
                  /\ Complete("compose")
                  /\ ws' = exit(ws, FALSE)
                  /\ result' = SuccessResult(FinalOutput, insertionPoint.time,
                                             adResult.digital_human_video_path)
                  /\ pc' = "done"
                  /\ UNCHANGED <<escaped, raisedAt, collabFailed, interrupted>>
    /\ UNCHANGED <<settingVars, clientVars, callerVars, windowVars, planVars, choiceVars, adVars, orch, adResult, written>>

(***************************************************************************)
(* The workspace scope on its own, as tests/test_file_manager.py uses it   *)
(***************************************************************************)
ScopeFiles == {"audio/test.txt", "audio/file1.txt", "keyframes/file2.txt",
               "transcriptions/test.txt", "ad_materials/test.txt", "videos/test.txt"}

\* manager.save_text(category, filename, content) inside the scope
SaveText ==
    /\ pc = "scope"
    /\ \E f \in ScopeFiles :
         /\ ws' = WriteFile(ws, f)
         /\ written' = written \cup {f}
    /\ UNCHANGED <<settingVars, clientVars, callerVars, windowVars, pc, outputs, planVars, choiceVars, adVars, orchVars,
                   outcomeVars, started, succeeded>>

\* the with block ends, normally or by `raise Exception("Test error")`
LeaveScope ==
    /\ pc = "scope"
    /\ \E exc \in BOOLEAN :
         /\ ws' = exit(ws, exc)
         /\ raisedAt' = IF exc THEN "scope" ELSE None
    /\ pc' = "left"
    /\ UNCHANGED <<settingVars, clientVars, callerVars, windowVars, outputs, planVars, choiceVars, adVars, orchVars,
                   result, escaped, collabFailed, interrupted, started, succeeded, written>>

\* manager.cleanup(), manager.cleanup(keep_on_error=...) on a manager used
\* without a with block
CallCleanup ==
    /\ pc = "scope"
    /\ \E k \in {"None", "True", "False"} : ws' = cleanup(ws, k)
    /\ pc' = "cleaned"
    /\ UNCHANGED <<settingVars, clientVars, callerVars, windowVars, outputs, planVars, choiceVars, adVars, orchVars,
                   outcomeVars, started, succeeded, written>>

Next ==
    \/ StartProcessing
    \/ ExtractMetadata
    \/ ExtractAudio
    \/ SeparateVocals
    \/ Transcribe
    \/ AnalyzeContent
    \/ AnalyzeScene
    \/ CheckCandidates
    \/ ScanCandidate
    \/ ChooseInsertion
    \/ ExtractReferenceClip

Spec == Init /\ [][Next]_vars

(***************************************************************************)
(* process_video when extract_audio is declared as at video_processor.py   *)
(* line 106, or with the start_time and end_time parameters the call at     *)
(* pipeline.py lines 286-290 passes                                         *)
(***************************************************************************)
InitPipeline ==
    /\ keepOnError \in BOOLEAN
    /\ fileExists \in BOOLEAN
    /\ extractAudioParams \in {extract_audio_signature,
                                extract_audio_signature \cup ReferenceClipKwargs}
    /\ pc = "start"
    /\ ws = NoWorkspace
    /\ outputs = {}
    /\ duration = 0
    /\ candidates = <<>>
    /\ profile = NoProfile
    /\ insertionPoint = NoPoint
    /\ insertionTime = 0
    /\ keyframe = NoFrame
    /\ scan = NoScan
    /\ tierAccepted = 0
    /\ catalog = <<>>
    /\ theme = <<>>
    /\ ad = NoAd
    /\ adScript = None
    /\ scriptContext = NoPoint
    /\ refWindow = NoWindow
    /\ orch = NoOrch
    /\ adResult = NoAdResult
    /\ result = NoResult
    /\ escaped = None
    /\ raisedAt = None
    /\ started = <<>>
    /\ succeeded = {}
    /\ written = {}
    /\ collabFailed = FALSE
    /\ interrupted = FALSE
    /\ composeCalls = 0
    /\ composed = NoComposed
    /\ req = NoRequest
    /\ poll = NoPoll
    /\ batch = NoBatch
    /\ UnitsIdle
    /\ app = NoApp

NextPipeline ==
    \/ Next
    \/ SeparateReferenceClip
    \/ SaveKeyframe
    \/ SelectAd
    \/ GenerateAdScript
    \/ StartAdGeneration
    \/ EnterGenerateAdVideo
    \/ CleanImageAttempt
    \/ VoiceCloneAttempt
    \/ DigitalHumanAttempt
    \/ CheckAdResult
    \/ Compose

SpecPipeline == InitPipeline /\ [][NextPipeline]_vars

(***************************************************************************)
(* generate_ad_video called on its own, as scripts/test_workflows.py does,  *)
(* with a keyframe and a reference audio in the workspace                   *)
(***************************************************************************)
InitAd ==
    /\ keepOnError \in BOOLEAN
    /\ fileExists = TRUE
    /\ extractAudioParams = extract_audio_signature
    /\ pc = "generate_ad_video"
    /\ ws = [exists |-> TRUE, files |-> {KeyframeJpg, OriginalWav, VocalsWav}]
    /\ outputs = {}
    /\ duration = 0
    /\ candidates = <<>>
    /\ profile = NoProfile
    /\ insertionPoint = NoPoint
    /\ insertionTime = 0
    /\ keyframe = NoFrame
    /\ scan = NoScan
    /\ tierAccepted = 0
    /\ catalog = <<>>
    /\ theme = <<>>
    /\ ad = NoAd
    /\ adScript \in Scripts
    /\ scriptContext = NoPoint
    /\ refWindow = NoWindow
    /\ \E c \in BOOLEAN : orch = [NoOrch EXCEPT !.caller = "direct", !.clean_image = c]
    /\ adResult = NoAdResult
    /\ result = NoResult
    /\ escaped = None
    /\ raisedAt = None
    /\ started = <<>>
    /\ succeeded = {}
    /\ written = {KeyframeJpg, OriginalWav, VocalsWav}
    /\ collabFailed = FALSE
    /\ interrupted = FALSE
    /\ composeCalls = 0
    /\ composed = NoComposed
    /\ req = NoRequest
    /\ poll = NoPoll
    /\ batch = NoBatch
    /\ UnitsIdle
    /\ app = NoApp

NextAd ==
    \/ EnterGenerateAdVideo
    \/ CleanImageAttempt
    \/ VoiceCloneAttempt
    \/ DigitalHumanAttempt

SpecAd == InitAd /\ [][NextAd]_vars

(***************************************************************************)
(* A TempFileManager of its own                                            *)
(***************************************************************************)
InitScope ==
    /\ keepOnError \in BOOLEAN
    /\ fileExists = TRUE
    /\ extractAudioParams = extract_audio_signature
    /\ pc = "scope"
    /\ ws = NewWorkspace(NoWorkspace)
    /\ outputs = {}
    /\ duration = 0
    /\ candidates = <<>>
    /\ profile = NoProfile
    /\ insertionPoint = NoPoint
    /\ insertionTime = 0
    /\ keyframe = NoFrame
    /\ scan = NoScan
    /\ tierAccepted = 0
    /\ catalog = <<>>
    /\ theme = <<>>
    /\ ad = NoAd
    /\ adScript = None
    /\ scriptContext = NoPoint
    /\ refWindow = NoWindow
    /\ orch = NoOrch
    /\ adResult = NoAdResult
    /\ result = NoResult
    /\ escaped = None
    /\ raisedAt = None
    /\ started = <<>>
    /\ succeeded = {}
    /\ written = {}
    /\ collabFailed = FALSE
    /\ interrupted = FALSE
    /\ composeCalls = 0
    /\ composed = NoComposed
    /\ req = NoRequest
    /\ poll = NoPoll
    /\ batch = NoBatch
    /\ UnitsIdle
    /\ app = NoApp

NextScope ==
    \/ SaveText
    \/ LeaveScope
    \/ CallCleanup

SpecScope == InitScope /\ [][NextScope]_vars

(***************************************************************************)
(* _select_insertion_with_speaker and the tier selection on a planner list  *)
(* of up to MaxScored candidates: process_video at line 227, phases 1 and 2 *)
(* done                                                                     *)
(***************************************************************************)
InitSelect ==
    /\ keepOnError \in BOOLEAN
    /\ fileExists = TRUE
    /\ extractAudioParams = extract_audio_signature
    /\ pc = "scoring"
    /\ ws = [exists |-> TRUE,
             files |-> {OriginalWav, VocalsWav, TranscriptionTxt, SubtitlesSrt}]
    /\ outputs = {}
    /\ duration = MIN_VIDEO_DURATION
    /\ candidates \in SeqsUpTo(InsertionPoints(duration), MaxScored)
    /\ profile \in {NoProfile} \cup [present : {TRUE}, best_frame_time : ProfileTimes]
    /\ insertionPoint = NoPoint
    /\ insertionTime = 0
    /\ keyframe = NoFrame
    /\ scan = NoScan
    /\ tierAccepted = 0
    /\ catalog = <<>>
    /\ theme = <<>>
    /\ ad = NoAd
    /\ adScript = None
    /\ scriptContext = NoPoint
    /\ refWindow = NoWindow
    /\ orch = NoOrch
    /\ adResult = NoAdResult
    /\ result = NoResult
    /\ escaped = None
    /\ raisedAt = None
    /\ started = <<"metadata", "demux", "separation", "transcription", "planning",
                   "scene">>
    /\ succeeded = {"metadata", "demux", "separation", "transcription", "planning",
                    "scene"}
    /\ written = {OriginalWav, VocalsWav, TranscriptionTxt, SubtitlesSrt}
    /\ collabFailed = FALSE
    /\ interrupted = FALSE
    /\ composeCalls = 0
    /\ composed = NoComposed
    /\ req = NoRequest
    /\ poll = NoPoll
    /\ batch = NoBatch
    /\ UnitsIdle
    /\ app = NoApp

NextSelect ==
    \/ CheckCandidates
    \/ ScanCandidate
    \/ ChooseInsertion
    \/ ExtractReferenceClip

SpecSelect == InitSelect /\ [][NextSelect]_vars

(***************************************************************************)
(* process_video at line 265: an insertion time anywhere in the video has  *)
(* been chosen, the reference window is computed next                      *)
(***************************************************************************)
InitWindow ==
    /\ keepOnError \in BOOLEAN
    /\ fileExists = TRUE
    /\ extractAudioParams \in {extract_audio_signature,
                                extract_audio_signature \cup ReferenceClipKwargs}
    /\ pc = "refclip"
    /\ ws = [exists |-> TRUE,
             files |-> {OriginalWav, VocalsWav, TranscriptionTxt, SubtitlesSrt}]
    /\ outputs = {}
    /\ duration \in MIN_VIDEO_DURATION..MaxWindowDuration
    /\ candidates = <<>>
    /\ profile = NoProfile
    /\ insertionTime \in 0..duration
    /\ insertionPoint = [time |-> insertionTime, priority |-> 1]
    /\ keyframe = [src |-> "candidate", time |-> insertionTime]
    /\ scan = NoScan
    /\ tierAccepted = 1
    /\ catalog = <<>>
    /\ theme = <<>>
    /\ ad = NoAd
    /\ adScript = None
    /\ scriptContext = NoPoint
    /\ refWindow = NoWindow
    /\ orch = NoOrch
    /\ adResult = NoAdResult
    /\ result = NoResult
    /\ escaped = None
    /\ raisedAt = None
    /\ started = <<"metadata", "demux", "separation", "transcription", "planning",
                   "scene", "scoring">>
    /\ succeeded = {"metadata", "demux", "separation", "transcription", "planning",
                    "scene", "scoring"}
    /\ written = {OriginalWav, VocalsWav, TranscriptionTxt, SubtitlesSrt}
    /\ collabFailed = FALSE
    /\ interrupted = FALSE
    /\ composeCalls = 0
    /\ composed = NoComposed
    /\ req = NoRequest
    /\ poll = NoPoll
    /\ batch = NoBatch
    /\ UnitsIdle
    /\ app = NoApp

NextWindow ==
    \/ ExtractReferenceClip
    \/ SeparateReferenceClip

SpecWindow == InitWindow /\ [][NextWindow]_vars

(***************************************************************************)
(* process_video at line 381: the digital-human clip is there, it is to be *)
(* inserted at insertion_point.time, anywhere in the video; the keyframe   *)
(* and the reference window were taken at the candidate's time or at the   *)
(* profile's best frame                                                    *)
(***************************************************************************)
InitCompose ==
    /\ keepOnError \in BOOLEAN
    /\ fileExists = TRUE
    /\ extractAudioParams = extract_audio_signature \cup ReferenceClipKwargs
    /\ pc = "compose"
    /\ ws = [exists |-> TRUE,
             files |-> {OriginalWav, TranscriptionTxt, SubtitlesSrt, ReferenceClip,
                        ReferenceVocalsClip, KeyframeJpg, CleanedKeyframe,
                        AdVoiceWav, AdVideoMp4}]
    /\ outputs = {}
    /\ duration \in MIN_VIDEO_DURATION..MaxWindowDuration
    /\ candidates = <<>>
    /\ profile = NoProfile
    /\ \E t \in 0..duration :
         /\ insertionPoint = [time |-> t, priority |-> 1]
         /\ \/ /\ insertionTime = t
               /\ keyframe = CandidateFrame(t)
               /\ tierAccepted = 1
            \/ /\ insertionTime \in ProfileTimes
               /\ keyframe = ProfileFrame(insertionTime)
               /\ tierAccepted = 0
    /\ scan = NoScan
    /\ catalog = <<DefaultAd>>
    /\ theme = <<"a">>
    /\ ad = DefaultAd
    /\ adScript = "model text"
    /\ scriptContext = insertionPoint
    /\ refWindow = ReferenceWindow(insertionTime, duration)
    /\ orch = [NoOrch EXCEPT !.caller = "process_video", !.attempt = 1,
                             !.cleaned_image_path = CleanedKeyframe,
                             !.calls = [st \in Stages |-> <<"ok">>]]
    /\ adResult = AdSuccess(orch)
    /\ result = NoResult
    /\ escaped = None
    /\ raisedAt = None
    /\ started = <<"metadata", "demux", "separation", "transcription", "planning",
                   "scene", "scoring", "reference_audio", "keyframe", "ad_selection",
                   "ad_copy", "image_cleanup", "voice_clone", "digital_human">>
    /\ succeeded = {"metadata", "demux", "separation", "transcription", "planning",
                    "scene", "scoring", "reference_audio", "keyframe", "ad_selection",
                    "ad_copy", "image_cleanup", "voice_clone", "digital_human"}
    /\ written = {OriginalWav, VocalsWav, TranscriptionTxt, SubtitlesSrt,
                  ReferenceClip, ReferenceVocalsClip, KeyframeJpg, CleanedKeyframe,
                  AdVoiceWav, AdVideoMp4}
    /\ collabFailed = FALSE
    /\ interrupted = FALSE
    /\ composeCalls = 0
    /\ composed = NoComposed
    /\ req = NoRequest
    /\ poll = NoPoll
    /\ batch = NoBatch
    /\ UnitsIdle
    /\ app = NoApp

NextCompose == Compose

SpecCompose == InitCompose /\ [][NextCompose]_vars

(***************************************************************************)
(* process_video at line 320: the keyframe is saved, an ad is to be        *)
(* selected from any catalog for any theme                                 *)
(***************************************************************************)
InitCatalog ==
    /\ keepOnError \in BOOLEAN
    /\ fileExists = TRUE
    /\ extractAudioParams = extract_audio_signature \cup ReferenceClipKwargs
    /\ pc = "ad_selection"
    /\ ws = [exists |-> TRUE,
             files |-> {OriginalWav, TranscriptionTxt, SubtitlesSrt, ReferenceClip,
                        ReferenceVocalsClip, KeyframeJpg}]
    /\ outputs = {}
    /\ duration = MIN_VIDEO_DURATION
    /\ candidates = <<>>
    /\ profile = NoProfile
    /\ insertionPoint = [time |-> 10, priority |-> 1]
    /\ insertionTime = 10
    /\ keyframe = [src |-> "candidate", time |-> 10]
    /\ scan = NoScan
    /\ tierAccepted = 1
    /\ catalog = <<>>
    /\ theme = <<>>
    /\ ad = NoAd
    /\ adScript = None
    /\ scriptContext = NoPoint
    /\ refWindow = ReferenceWindow(10, MIN_VIDEO_DURATION)
    /\ orch = NoOrch
    /\ adResult = NoAdResult
    /\ result = NoResult
    /\ escaped = None
    /\ raisedAt = None
    /\ started = <<"metadata", "demux", "separation", "transcription", "planning",
                   "scene", "scoring", "reference_audio", "keyframe">>
    /\ succeeded = {"metadata", "demux", "separation", "transcription", "planning",
                    "scene", "scoring", "reference_audio", "keyframe"}
    /\ written = {OriginalWav, VocalsWav, TranscriptionTxt, SubtitlesSrt,
                  ReferenceClip, ReferenceVocalsClip, KeyframeJpg}
    /\ collabFailed = FALSE
    /\ interrupted = FALSE
    /\ composeCalls = 0
    /\ composed = NoComposed
    /\ req = NoRequest
    /\ poll = NoPoll
    /\ batch = NoBatch
    /\ UnitsIdle
    /\ app = NoApp

NextCatalog ==
    \/ SelectAdOfCatalog
    \/ GenerateAdScript

SpecCatalog == InitCatalog /\ [][NextCatalog]_vars

(***************************************************************************)
(* Properties                                                              *)
(***************************************************************************)
FatalStages == {"voice_clone", "digital_human"}
Calls(stage) == orch.calls[stage]
InRange(d) == MIN_VIDEO_DURATION <= d /\ d <= MAX_VIDEO_DURATION

\* C1: once an Exception has been raised inside the try block of process_video
\* (by a collaborator or by a policy check), process_video has returned, nothing
\* has left it as an exception, no further step can run, and the result carries
\* success = false, output_video_path = None and an error message.
C1_FailureIsReturned ==
    raisedAt # None =>
        /\ pc = "done"
        /\ ~ENABLED NextPipeline
        /\ escaped = None
        /\ result.returned
        /\ ~result.success
        /\ result.output_video_path = None
        /\ result.error_message # None

C1_Witness ==
    /\ raisedAt = "planning"
    /\ result.returned
    /\ VocalsWav \in written

\* C2: when the file exists, the duration is in range, no collaborator call
\* failed and the scoring loop accepted a candidate, a finished process_video has
\* returned success = true with the output path <videoId>_with_ad.mp4.
C2_SucceedsWhenAllCallsSucceed ==
    (/\ pc = "done"
     /\ fileExists
     /\ InRange(duration)
     /\ ~collabFailed
     /\ tierAccepted >= 1)
    => /\ result.returned
       /\ result.success
       /\ result.output_video_path = FinalOutput

StartedBefore(i) == {started[j] : j \in 1..(i - 1)}
EarlierSteps == [s \in DOMAIN StepIndex |-> {StepOrder[j] : j \in 1..(StepIndex[s] - 1)}]
InStepOrder == \A i \in 1..Len(started) : \A j \in 1..(i - 1) :
                   StepIndex[started[j]] < StepIndex[started[i]]
ImageCleanupDegraded ==
    /\ Calls("image_cleanup") = <<"error", "error">>
    /\ orch.cleaned_image_path = KeyframeJpg

C4_WorkspaceKeptOnError ==
    (raisedAt # None /\ keepOnError) =>
        /\ ws.exists
        /\ written \subseteq ws.files

C4_Witness ==
    /\ raisedAt = "refclip"
    /\ keepOnError
    /\ result.returned
    /\ {OriginalWav, VocalsWav, TranscriptionTxt, SubtitlesSrt} \subseteq ws.files

\* C5: a scope left by an exception with KEEP_TEMP_FILES_ON_ERROR unset has
\* removed the workspace.
C5_RemovedOnErrorWithoutKeep ==
    (pc = "left" /\ raisedAt # None /\ ~keepOnError) => ~ws.exists

\* C6: a scope left without an exception has removed the workspace, whatever
\* KEEP_TEMP_FILES_ON_ERROR is.
C6_RemovedOnNormalExit ==
    (pc = "left" /\ raisedAt = None) => ~ws.exists

C6_Witness ==
    /\ pc = "left"
    /\ raisedAt = None
    /\ keepOnError
    /\ "audio/test.txt" \in written
    /\ ~ws.exists

\* C7: in the voice-clone and digital-human stages a failed first attempt
\* followed by a successful second one is a success of the stage: the stage has
\* completed and generate_ad_video has not returned that stage's failure.
C7_SecondAttemptCounts ==
    \A stage \in FatalStages :
        Calls(stage) = <<"error", "ok">> =>
            /\ stage \in succeeded
            /\ ~(adResult.returned /\ ~adResult.success
                   /\ adResult.error_message = stage)

C9_FatalStagesAbort ==
    /\ Calls("voice_clone") = <<"error", "error">> => Calls("digital_human") = <<>>
    /\ \A stage \in FatalStages :
          Calls(stage) = <<"error", "error">> =>
              /\ composeCalls = 0
              /\ "compose" \notin StartedBefore(Len(started) + 1)
              /\ pc = "done" => (result.returned /\ ~result.success /\ escaped = None)

C9_Witness ==
    /\ Calls("voice_clone") = <<"error", "error">>
    /\ pc = "done"
    /\ result.returned
    /\ ~result.success

AttemptsBounded ==
    /\ \A stage \in Stages : Len(Calls(stage)) <= 2
    /\ Len(Calls("image_cleanup")) + Len(Calls("voice_clone"))
         + Len(Calls("digital_human")) <= 6

\* C10: every stage invokes its service at most twice, one generate_ad_video call
\* makes at most six attempts, and the call comes to an end.
C10_RetryBound == []AttemptsBounded /\ <>(pc = "done")

C10_Witness ==
    /\ Len(Calls("image_cleanup")) = 2
    /\ Len(Calls("digital_human")) = 2
    /\ adResult.returned

\* generate_ad_video keeps taking its next step
SpecAdFair == SpecAd /\ WF_vars(NextAd)

(***************************************************************************)
(* Insertion-point selection                                               *)
(***************************************************************************)
\* the largest priority number in a list of candidates
MaxPriority(points) ==
    CHOOSE m \in {points[i].priority : i \in 1..Len(points)} :
        \A i \in 1..Len(points) : points[i].priority <= m

\* 0.4 * (maxPriority + 1 - priority) / maxPriority + 0.6 * confidence, times
\* 50 * maxPriority, for a scored entry e
ScoreByRank(e, maxPriority) ==
    20 * (maxPriority + 1 - e.point.priority) + 3 * e.face_confidence * maxPriority

\* 0.4 * (4 - priority) / 3 + 0.6 * confidence with a profile, times 150;
\* 0.5 * (4 - priority) / 3 + 0.5 * confidence without, times 60
ScoreByFixedRank(e, hasProfile) ==
    IF hasProfile
    THEN 20 * (4 - e.point.priority) + 9 * e.face_confidence
    ELSE 10 * (4 - e.point.priority) + 3 * e.face_confidence

\* the step in which _select_insertion_with_speaker returns a scored candidate
ReturnsScored == pc = "scan" /\ pc' = "refclip" /\ scan.scored # <<>>

TierBStep ==
    /\ pc = "scan"
    /\ scan.i > Len(candidates)
    /\ scan.scored = <<>>
    /\ profile.present
    /\ pc' # pc

\* C12: when the scoring loop accepted no candidate and a SpeakerProfile exists,
\* process_video goes on to the reference audio with the profile's best frame as
\* keyframe and the profile's best-frame timestamp as insertion time, and with
\* the first candidate as insertion_point; from then on the reference window is
\* computed from that timestamp, the ad copy is written from the first
\* candidate's context strings, and no result reports a time other than that
\* timestamp.
C12_TierBFallback ==
    /\ [][TierBStep =>
            /\ pc' = "refclip"
            /\ keyframe'.src = "profile"
            /\ keyframe'.time = profile.best_frame_time
            /\ insertionTime' = profile.best_frame_time
            /\ insertionPoint' = candidates[1]]_vars
    /\ [](keyframe.src = "profile" =>
            /\ keyframe.time = insertionTime
            /\ tierAccepted = 0
            /\ refWindow \in {NoWindow, ReferenceWindow(keyframe.time, duration)}
            /\ scriptContext \in {NoPoint, insertionPoint}
            /\ result.success => result.insertion_time = keyframe.time)

\* the fallback was taken with a first candidate at another time than the
\* profile's best frame, and the reference window was computed
C12_Witness ==
    /\ keyframe.src = "profile"
    /\ insertionPoint.time # insertionTime
    /\ "reference_audio" \in {started[i] : i \in 1..Len(started)}
    /\ refWindow = ReferenceWindow(insertionTime, duration)
    /\ refWindow # NoWindow

\* the step that ends the scoring loop with no accepted candidate and no
\* SpeakerProfile
TierCStep ==
    /\ pc = "scan"
    /\ scan.i > Len(candidates)
    /\ scan.scored = <<>>
    /\ ~profile.present
    /\ pc' # pc

StartedSteps == {started[i] : i \in 1..Len(started)}

\* C13: when the scoring loop accepted no candidate and there is no
\* SpeakerProfile, process_video returns a failure result at once, and in that
\* run no reference audio was extracted, no ad selected, no ad copy written, no
\* generative service called and nothing composed.
C13_NoUsableInsertionAborts ==
    /\ [][TierCStep =>
            /\ pc' = "done"
            /\ result'.returned /\ ~result'.success
            /\ result'.output_video_path = None
            /\ result'.error_message = "no usable insertion point"
            /\ escaped' = None]_vars
    /\ [](result.error_message = "no usable insertion point" =>
            /\ pc = "done"
            /\ StartedSteps \cap {"reference_audio", "keyframe", "ad_selection",
                                  "ad_copy", "image_cleanup", "voice_clone",
                                  "digital_human", "compose"} = {}
            /\ refWindow = NoWindow
            /\ ad = NoAd /\ adScript = None
            /\ \A st \in Stages : orch.calls[st] = <<>>
            /\ composeCalls = 0
            /\ outputs = {})

\* two candidates were looked at, none accepted, no profile: the run has failed
C13_Witness ==
    /\ result.error_message = "no usable insertion point"
    /\ Len(candidates) >= 2
    /\ ~profile.present
    /\ "scoring" \in StartedSteps

\* avoidStart <= t <= duration - avoidEnd
InInsertionInterval(t) ==
    /\ INSERTION_POINT_AVOID_START <= t
    /\ t <= duration - INSERTION_POINT_AVOID_END

\* C14: every candidate the planning step hands to the insertion-point selection,
\* and the insertion point selected from them, has its time in
\* [avoidStart, duration - avoidEnd].
C14_CandidatesInsideInterval ==
    /\ pc \in {"scoring", "scan"} =>
          \A i \in 1..Len(candidates) : InInsertionInterval(candidates[i].time)
    /\ insertionPoint # NoPoint => InInsertionInterval(insertionPoint.time)

\* C15: once the measured duration is below MIN_VIDEO_DURATION or above
\* MAX_VIDEO_DURATION, process_video has returned success = false, and the only
\* step that ever began is the metadata read: no demux, separation, transcription,
\* chat call or generative-service call, and no file was written.
C15_DurationPolicyFirst ==
    (duration # 0 /\ ~InRange(duration)) =>
        /\ pc = "done"
        /\ result.returned /\ ~result.success
        /\ result.output_video_path = None
        /\ result.error_message \in {"video too short", "video too long"}
        /\ escaped = None
        /\ started = <<"metadata">>
        /\ succeeded = {}
        /\ written = {} /\ ws.files = {}
        /\ candidates = <<>> /\ adScript = None
        /\ \A st \in Stages : orch.calls[st] = <<>>
        /\ composeCalls = 0

\* a video one second longer than the maximum was turned down
C15_Witness ==
    /\ duration = MAX_VIDEO_DURATION + 1
    /\ result.error_message = "video too long"
    /\ pc = "done"

(***************************************************************************)
(* ComfyUIClient._request(method, url, retries=5, backoff=1.0, timeout=30)  *)
(***************************************************************************)
RETRIES == 5

\* no call of process_video is under way
NotCalled ==
    /\ pc = "idle"
    /\ ws = NoWorkspace
    /\ outputs = {}
    /\ duration = 0
    /\ candidates = <<>>
    /\ profile = NoProfile
    /\ insertionPoint = NoPoint
    /\ insertionTime = 0
    /\ keyframe = NoFrame
    /\ scan = NoScan
    /\ tierAccepted = 0
    /\ catalog = <<>>
    /\ theme = <<>>
    /\ ad = NoAd
    /\ adScript = None
    /\ scriptContext = NoPoint
    /\ refWindow = NoWindow
    /\ orch = NoOrch
    /\ adResult = NoAdResult
    /\ result = NoResult
    /\ escaped = None
    /\ raisedAt = None
    /\ started = <<>>
    /\ succeeded = {}
    /\ written = {}
    /\ collabFailed = FALSE
    /\ interrupted = FALSE
    /\ composeCalls = 0
    /\ composed = NoComposed

\* process_video is not running, the settings are those of settings.py
PipelineIdle ==
    /\ keepOnError = TRUE
    /\ fileExists = TRUE
    /\ extractAudioParams = extract_audio_signature
    /\ NotCalled

pipelineVars == <<settingVars, windowVars, pc, ws, outputs, planVars, choiceVars,
                  adVars, orchVars, outcomeVars, started, succeeded, written>>

\* how one requests.request call can end: a response, or an exception
StatusCodes == {200, 404, 499, 500, 503}
Response(status) == [kind |-> "response", status |-> status]
Raised(exc) == [kind |-> exc, status |-> 0]
AttemptOutcomes ==
    {Response(c) : c \in StatusCodes}
        \cup {Raised(e) : e \in {"ConnectionError", "Timeout", "TooManyRedirects",
                                  "KeyboardInterrupt"}}

\* every client or server error treated as a server error
ServerError_from_400(status) == status >= 400

\* line 340: `if resp.status_code >= 500`
ServerError(status) == status >= 500

\* line 343: `except (requests.HTTPError, requests.ConnectionError, requests.Timeout)`
Caught(exc) == exc \in {"HTTPError", "ConnectionError", "Timeout"}

\* the exception an attempt ends with, None when it returned a response
AttemptException(o) ==
    IF o.kind = "response"
    THEN IF ServerError(o.status) THEN "HTTPError" ELSE None
    ELSE o.kind

\* lines 337-351: one pass of `for attempt in range(1, retries + 1)` up to the
\* return, the raise or the sleep
RequestAttempt ==
    /\ req.pc = "attempt"
    /\ \E o \in AttemptOutcomes :
         LET r == [req EXCEPT !.outcomes = Append(@, o)]
             e == AttemptException(o)
         IN  IF e = None
             THEN req' = [r EXCEPT !.pc = "returned", !.response = o.status]
             ELSE IF Caught(e) /\ req.attempt < RETRIES
             THEN req' = [r EXCEPT !.pc = "sleep"]
             ELSE req' = [r EXCEPT !.pc = "raised", !.raised = e]
    /\ UNCHANGED <<pipelineVars, poll, unitVars, callerVars>>

\* lines 353-355: time.sleep(backoff * attempt + jitter), then the next pass; a
\* KeyboardInterrupt during the sleep leaves _request
BackoffSleep ==
    /\ req.pc = "sleep"
    /\ \E o \in {"ok", "interrupt"} :
         IF o = "ok"
         THEN req' = [req EXCEPT !.pc = "attempt", !.attempt = @ + 1, !.slept = @ + 1]
         ELSE req' = [req EXCEPT !.pc = "raised", !.raised = "KeyboardInterrupt"]
    /\ UNCHANGED <<pipelineVars, poll, unitVars, callerVars>>

InitRequest ==
    /\ PipelineIdle
    /\ req = [NoRequest EXCEPT !.pc = "attempt", !.attempt = 1]
    /\ poll = NoPoll
    /\ batch = NoBatch
    /\ UnitsIdle
    /\ app = NoApp

NextRequest ==
    \/ RequestAttempt
    \/ BackoffSleep

SpecRequest == InitRequest /\ [][NextRequest]_vars

\* a connection error, a timeout or a 5xx response
TransportErrorOr5xx(o) ==
    \/ o.kind \in {"ConnectionError", "Timeout"}
    \/ o.kind = "response" /\ o.status \in 500..599

\* C16: _request makes at most 5 attempts; an attempt is followed by another one
\* only if it ended in a connection error, a timeout or a 5xx response, and every
\* such attempt before the 5th is followed by the backoff sleep and another
\* attempt (unless the sleep is interrupted); a response is returned only with a
\* status below 500; a 5th attempt that fails raises.
C16_RequestRetryPolicy ==
    LET n == Len(req.outcomes)
        last == req.outcomes[n]
    IN  /\ n <= RETRIES
        /\ \A i \in 1..(n - 1) : TransportErrorOr5xx(req.outcomes[i])
        /\ req.pc = "returned" =>
              /\ last.kind = "response" /\ last.status < 500
              /\ req.response = last.status
        /\ req.pc = "sleep" => TransportErrorOr5xx(last) /\ n < RETRIES
        /\ (req.pc = "raised" /\ req.raised # "KeyboardInterrupt"
                /\ TransportErrorOr5xx(last)) => n = RETRIES
        /\ (n = RETRIES /\ req.pc # "attempt" /\ TransportErrorOr5xx(last)) =>
              req.pc = "raised"
        /\ (n >= 1 /\ req.pc # "attempt" /\ ~TransportErrorOr5xx(last)) =>
              req.pc \in {"returned", "raised"}

\* two failed attempts, then a 404 response that is returned
C16_Witness ==
    /\ req.pc = "returned"
    /\ req.response = 404
    /\ Len(req.outcomes) = 3
    /\ req.outcomes[1] = Response(503)
    /\ req.outcomes[2] = Raised("Timeout")

\* five failed attempts end in the exception of the last one
C16_WitnessExhausted ==
    /\ req.pc = "raised"
    /\ Len(req.outcomes) = RETRIES
    /\ req.raised = "HTTPError"

(***************************************************************************)
(* ComfyUIClient.wait_for_completion(prompt_id, timeout, check_interval=2)  *)
(* The clock poll.now counts the seconds since start_time.                  *)
(***************************************************************************)
CHECK_INTERVAL == 2

\* seconds one get_status call can take
PollDurations == {0, 1, 3}

\* what one get_status call can end in: an empty history entry, a status that is
\* neither success nor error, success, error, an exception of the request, or a
\* KeyboardInterrupt
PollResults == {"queued", "running", "success", "error", "raise", "interrupt"}

\* the timeout test one check interval late
TimedOut_one_interval_late(elapsed, timeout) == elapsed > timeout + CHECK_INTERVAL

\* line 171: `if elapsed > timeout`
TimedOut(elapsed, timeout) == elapsed > timeout

\* lines 168-201: one pass of `while True` up to the sleep: the timeout test, the
\* status poll, and what its result leads to
PollStatus ==
    /\ poll.pc = "check"
    /\ LET elapsed == poll.now
       IN  IF TimedOut(elapsed, poll.timeout)
           THEN poll' = [poll EXCEPT !.pc = "raised", !.raised = "TimeoutError"]
           ELSE \E r \in PollResults, d \in PollDurations :
                  LET p == [poll EXCEPT !.polls = Append(@, [at |-> elapsed,
                                                            result |-> r]),
                                        !.now = @ + d]
                  IN  CASE r \in {"queued", "running"} ->
                             poll' = [p EXCEPT !.pc = "sleep"]
                        [] r = "success" ->
                             poll' = [p EXCEPT !.pc = "returned"]
                        [] r = "error" ->
                             poll' = [p EXCEPT !.pc = "raised", !.raised = "Exception"]
                        [] r = "raise" ->
                             poll' = [p EXCEPT !.pc = "raised",
                                               !.raised = "RequestException"]
                        [] r = "interrupt" ->
                             poll' = [p EXCEPT !.pc = "raised",
                                               !.raised = "KeyboardInterrupt"]
    /\ UNCHANGED <<pipelineVars, req, unitVars, callerVars>>

\* lines 177 and 198: time.sleep(check_interval); lines 203-207 pass a
\* KeyboardInterrupt on
PollSleep ==
    /\ poll.pc = "sleep"
    /\ \E o \in {"ok", "interrupt"} :
         IF o = "ok"
         THEN poll' = [poll EXCEPT !.pc = "check", !.now = @ + CHECK_INTERVAL]
         ELSE poll' = [poll EXCEPT !.pc = "raised", !.raised = "KeyboardInterrupt"]
    /\ UNCHANGED <<pipelineVars, req, unitVars, callerVars>>

InitWait ==
    /\ PipelineIdle
    /\ req = NoRequest
    /\ \E t \in 0..MaxTimeout : poll = [NoPoll EXCEPT !.pc = "check", !.timeout = t]
    /\ batch = NoBatch
    /\ UnitsIdle
    /\ app = NoApp

NextWait ==
    \/ PollStatus
    \/ PollSleep

SpecWait == InitWait /\ [][NextWait]_vars

\* the loop goes on as long as it can
SpecWaitFair == SpecWait /\ WF_vars(NextWait)

PollEnded == poll.pc \in {"returned", "raised"}

\* C17: wait_for_completion ends; it returns exactly at the first poll that reports
\* success and raises the job's failure exactly at the first poll that reports
\* error, no poll following either; it raises TimeoutError only when the elapsed
\* time exceeds the timeout; and every poll is issued at an elapsed time that does
\* not exceed the timeout.
C17_WaitTerminates ==
    /\ <>PollEnded
    /\ [](LET n == Len(poll.polls)
          IN  /\ \A i \in 1..n : poll.polls[i].at <= poll.timeout
              /\ \A i \in 1..(n - 1) : poll.polls[i].result \in {"queued", "running"}
              /\ poll.pc = "returned" <=> (n >= 1 /\ poll.polls[n].result = "success")
              /\ poll.raised = "Exception" <=> (n >= 1 /\ poll.polls[n].result = "error")
              /\ poll.raised = "TimeoutError" =>
                    poll.now > poll.timeout /\ poll.pc = "raised")

\* the job was still running at two polls and done at the third
C17_Witness ==
    /\ poll.pc = "returned"
    /\ Len(poll.polls) = 3
    /\ poll.polls[1].result = "queued"
    /\ poll.polls[2].result = "running"

\* the timeout passed while the job was still running
C17_WitnessTimeout ==
    /\ poll.raised = "TimeoutError"
    /\ Len(poll.polls) >= 2

(***************************************************************************)
(* main() and VideoPipeline.batch_process around process_video             *)
(***************************************************************************)
\* process_video has returned or raised and its frame is gone; the next file has
\* another video_id, hence another workspace
ForgetCall ==
    /\ pc' = "idle"
    /\ ws' = NoWorkspace
    /\ duration' = 0
    /\ candidates' = <<>>
    /\ profile' = NoProfile
    /\ insertionPoint' = NoPoint
    /\ insertionTime' = 0
    /\ keyframe' = NoFrame
    /\ scan' = NoScan
    /\ tierAccepted' = 0
    /\ catalog' = <<>>
    /\ theme' = <<>>
    /\ ad' = NoAd
    /\ adScript' = None
    /\ scriptContext' = NoPoint
    /\ refWindow' = NoWindow
    /\ orch' = NoOrch
    /\ adResult' = NoAdResult
    /\ result' = NoResult
    /\ escaped' = None
    /\ raisedAt' = None
    /\ started' = <<>>
    /\ succeeded' = {}
    /\ written' = {}
    /\ collabFailed' = FALSE
    /\ composeCalls' = 0
    /\ composed' = NoComposed
    /\ UNCHANGED <<settingVars, outputs, interrupted>>

callVars == <<windowVars, ws, outputs, planVars, choiceVars, adVars, orchVars,
              outcomeVars, started, succeeded, written>>

\* main returns code
Exit(code) == app' = [app EXCEPT !.pc = "exited", !.exit_code = code]

\* main lines 80-126: the path checks, then batch_process or process_video is
\* called
MainStart ==
    /\ app.pc = "main"
    /\ IF ~app.exists
       THEN Exit(1) /\ UNCHANGED <<pc, batch>>
       ELSE IF app.batch
       THEN IF ~app.is_dir
            THEN Exit(1) /\ UNCHANGED <<pc, batch>>
            ELSE /\ app' = [app EXCEPT !.pc = "batch"]
                 /\ batch' = [NoBatch EXCEPT !.pc = "loop", !.files = app.videos,
                                             !.i = 1]
                 /\ UNCHANGED pc
       ELSE IF app.is_dir
            THEN Exit(1) /\ UNCHANGED <<pc, batch>>
            ELSE /\ app' = [app EXCEPT !.pc = "single"]
                 /\ pc' = "start"
                 /\ UNCHANGED batch
    /\ UNCHANGED <<settingVars, clientVars, callVars>>

\* main lines 102-112: the exit code for the list batch_process returned
BatchExitCode(results) ==
    LET success_count == Cardinality({k \in 1..Len(results) : results[k].result.success})
    IN  IF success_count = Len(results) THEN 0 ELSE 1

\* main lines 128-140
SingleExitCode(r) == IF r.success THEN 0 ELSE 1

\* main lines 122-144: process_video returned its result, or a KeyboardInterrupt
\* left it and `except KeyboardInterrupt` returns 130
MainSingleReturn ==
    /\ app.pc = "single"
    /\ pc = "done"
    /\ IF escaped = "KeyboardInterrupt"
       THEN Exit(130)
       ELSE Exit(SingleExitCode(result))
    /\ UNCHANGED <<settingVars, clientVars, pc, callVars, batch>>

\* batch_process lines 457-466: process_video is called on the next file
BatchNextVideo ==
    /\ batch.pc = "loop"
    /\ batch.i <= batch.files
    /\ pc = "idle"
    /\ pc' = "start"
    /\ UNCHANGED <<settingVars, clientVars, callVars, callerVars>>

\* batch_process line 468: results.append(result); an exception that left
\* process_video leaves batch_process as well.  Of a collected result the list
\* keeps what batch_process (line 473) and main (line 104) read: success
BatchCollect ==
    /\ batch.pc = "loop"
    /\ pc = "done"
    /\ IF escaped # None
       THEN /\ batch' = [batch EXCEPT !.pc = "raised", !.raised = escaped]
            /\ UNCHANGED <<settingVars, pc, callVars>>
       ELSE /\ batch' = [batch EXCEPT !.results = Append(@, [video |-> batch.i,
                                                            result |-> [returned |-> result.returned,
                                                                        success |-> result.success]]),
                                      !.i = @ + 1]
            /\ ForgetCall
    /\ UNCHANGED <<clientVars, app>>

\* batch_process lines 470-483: the summary divides by len(results)
BatchSummary ==
    /\ batch.pc = "loop"
    /\ batch.i > batch.files
    /\ pc = "idle"
    /\ IF Len(batch.results) = 0
       THEN batch' = [batch EXCEPT !.pc = "raised", !.raised = "ZeroDivisionError"]
       ELSE batch' = [batch EXCEPT !.pc = "returned"]
    /\ UNCHANGED <<settingVars, clientVars, pc, callVars, app>>

\* main lines 95-112 and 142-150: the exit code of the batch mode
MainBatchReturn ==
    /\ app.pc = "batch"
    /\ batch.pc \in {"returned", "raised"}
    /\ IF batch.pc = "raised"
       THEN IF batch.raised = "KeyboardInterrupt" THEN Exit(130) ELSE Exit(1)
       ELSE Exit(BatchExitCode(batch.results))
    /\ UNCHANGED <<settingVars, clientVars, pc, callVars, batch>>

\* the command line: a missing path, a file or a directory, with or without
\* --batch; a directory holds up to MaxVideos .mp4 files.  The batch mode runs
\* with extract_audio as declared; the single mode also with the window
\* parameters, with which a run gets to phases 4 and 5.
InitMain ==
    /\ keepOnError \in BOOLEAN
    /\ fileExists = TRUE
    /\ extractAudioParams \in {extract_audio_signature,
                                extract_audio_signature \cup ReferenceClipKwargs}
    /\ NotCalled
    /\ req = NoRequest
    /\ poll = NoPoll
    /\ batch = NoBatch
    /\ UnitsIdle
    /\ \E e \in BOOLEAN, d \in BOOLEAN, b \in BOOLEAN, n \in 0..MaxVideos :
         /\ d => e
         /\ n > 0 => (d /\ b)
         /\ app = [NoApp EXCEPT !.pc = "main", !.exists = e, !.is_dir = d,
                                !.batch = b, !.videos = n]
         /\ b => extractAudioParams = extract_audio_signature

NextMain ==
    \/ MainStart
    \/ MainSingleReturn
    \/ BatchNextVideo
    \/ BatchCollect
    \/ BatchSummary
    \/ MainBatchReturn
    \/ NextPipeline

SpecMain == InitMain /\ [][NextMain]_vars

\* C18: the step in which a KeyboardInterrupt is raised inside a call ends
\* process_video by that exception: no ProcessingResult and no AdVideoResult is
\* made of it, the workspace stays as it is, then and afterwards; inside
\* generate_ad_video the interrupted attempt is the last call of the run; and
\* main, which can then only return, returns 130, which it does in no other case.
C18_InterruptPropagates ==
    /\ [][(interrupted' /\ ~interrupted) =>
            /\ escaped' = "KeyboardInterrupt"
            /\ pc' = "done"
            /\ ~result'.returned
            /\ adResult' = adResult
            /\ ws' = ws /\ ws.exists]_vars
    /\ [][interrupted => (ws' = ws /\ result' = result /\ escaped' = escaped)]_vars
    /\ [](\A st \in Stages : \A i \in 1..Len(orch.calls[st]) :
            orch.calls[st][i] = "interrupt" =>
                /\ interrupted
                /\ i = Len(orch.calls[st])
                /\ \A later \in Stages :
                      StepIndex[later] > StepIndex[st] => orch.calls[later] = <<>>)
    /\ [](interrupted =>
            /\ app.pc = "exited" => app.exit_code = 130
            /\ app.pc # "exited" =>
                  /\ ENABLED (MainSingleReturn \/ BatchCollect \/ MainBatchReturn)
                  /\ ~ENABLED NextPipeline
                  /\ ~ENABLED BatchNextVideo)
    /\ [](app.exit_code = 130 => interrupted)

\* the second voice-clone attempt was interrupted and main has returned 130
C18_Witness ==
    /\ orch.calls["voice_clone"] = <<"error", "interrupt">>
    /\ interrupted
    /\ ws.exists
    /\ app.exit_code = 130

\* C19: batch_process calls process_video on the files one at a time, each call
\* starting afresh, appends the result of file k as the k-th result, goes on after
\* a failure result, and returns a list of as many results as there are files;
\* only a KeyboardInterrupt ends it otherwise.
C19_OneResultPerFile ==
    /\ \A k \in 1..Len(batch.results) :
          /\ batch.results[k].video = k
          /\ batch.results[k].result.returned
    /\ batch.pc = "loop" =>
          /\ Len(batch.results) = batch.i - 1
          /\ batch.i <= batch.files + 1
    /\ (batch.pc = "loop" /\ pc = "start") =>
          /\ started = <<>> /\ written = {} /\ ws = NoWorkspace
          /\ result = NoResult /\ candidates = <<>>
    /\ batch.pc = "returned" => Len(batch.results) = batch.files
    /\ batch.pc = "raised" => batch.raised = "KeyboardInterrupt"

\* every video of the batch was processed and succeeded, or the single one did
AllSucceeded ==
    IF app.batch
    THEN /\ app.is_dir
         /\ Len(batch.results) = app.videos
         /\ \A k \in 1..Len(batch.results) : batch.results[k].result.success
    ELSE /\ app.exists /\ ~app.is_dir
         /\ result.success

\* C20: when main has returned, its exit code is 130 if a KeyboardInterrupt was
\* raised, else 0 if the single video succeeded or every video of the batch
\* succeeded, else 1.
C20_ExitCodes ==
    app.pc = "exited" =>
        app.exit_code = IF interrupted THEN 130
                        ELSE IF AllSucceeded THEN 0
                        ELSE 1

(***************************************************************************)
(* LLMService.generate_ad_script                                           *)
(***************************************************************************)
\* the template keys: "tech" is 科技类, "edu" 教育类, "general" 通用
Categories == {"tech", "edu", "general"}
TemplateLists == {<<>>, <<"first">>, <<"first", "second">>}
TemplateDicts == [Categories -> TemplateLists]

\* a text: its leading whitespace, the characters from its first to its last
\* non-whitespace character, its trailing whitespace, as lengths
Texts == [lead : 0..MaxPad, body : 0..MaxTextLen, trail : 0..MaxPad]

\* chat.completions.create: an answer with content, an answer whose content is
\* None, an Exception, a KeyboardInterrupt
ChatOutcomes ==
    [kind : {"content"}, text : Texts]
        \cup [kind : {"no content", "error", "interrupt"}, text : {NoText}]

len(text) == text.lead + text.body + text.trail

\* str.strip()
strip(text) == [lead |-> 0, body |-> text.body, trail |-> 0]

\* text[:n]
Prefix(text, n) ==
    LET lead == Min(text.lead, n)
        body == Min(text.body, n - lead)
        trail == Min(text.trail, n - lead - body)
    IN  [lead |-> lead, body |-> body, trail |-> trail]

\* AdConfig.get_template: the first template of the category, else of 通用
get_template(templates, category) ==
    IF templates[category] # <<>>
    THEN [category |-> category, text |-> templates[category][1]]
    ELSE IF category # "general" /\ templates["general"] # <<>>
    THEN [category |-> "general", text |-> templates["general"][1]]
    ELSE NoTemplate

\* a text of exactly the minimum length taken as too short
TooShort_at_minimum(n) == n <= AD_SCRIPT_MIN_LENGTH

\* line 276: len(ad_script) < settings.AD_SCRIPT_MIN_LENGTH
TooShort(n) == n < AD_SCRIPT_MIN_LENGTH

\* line 279: len(ad_script) > settings.AD_SCRIPT_MAX_LENGTH
TooLong(n) == n > AD_SCRIPT_MAX_LENGTH

ReturnsText(text) ==
    [raised |-> None, kind |-> "text", text |-> text, template |-> NoTemplate]
ReturnsTemplate(template) ==
    [raised |-> None, kind |-> "template", text |-> NoText, template |-> template]
Propagates(exc) ==
    [raised |-> exc, kind |-> None, text |-> NoText, template |-> NoTemplate]

\* generate_ad_script lines 190 and 260-291; content None makes .strip() raise an
\* AttributeError inside the try block
generate_ad_script(templates, video_category, chat) ==
    LET template == get_template(templates, video_category)
        ad_script == strip(chat.text)
    IN  IF chat.kind = "interrupt" THEN Propagates("KeyboardInterrupt")
        ELSE IF chat.kind # "content" THEN ReturnsTemplate(template)
        ELSE IF TooShort(len(ad_script)) THEN ReturnsTemplate(template)
        ELSE IF TooLong(len(ad_script))
        THEN ReturnsText(Prefix(ad_script, AD_SCRIPT_MAX_LENGTH))
        ELSE ReturnsText(ad_script)

\* one call of generate_ad_script, from its arguments to its return or raise
GenerateAdScriptCall ==
    /\ scriptCall.pc = "called"
    /\ LET ret == generate_ad_script(scriptCall.templates, scriptCall.video_category,
                                     scriptCall.chat)
       IN  scriptCall' = [scriptCall EXCEPT
                            !.pc = IF ret.raised = None THEN "returned" ELSE "raised",
                            !.ret = ret]
    /\ UNCHANGED <<pipelineVars, req, poll, scaleCall, speakerCall, job, prep, sceneCall, callerVars>>

InitScript ==
    /\ PipelineIdle
    /\ req = NoRequest
    /\ poll = NoPoll
    /\ batch = NoBatch
    /\ app = NoApp
    /\ sceneCall = NoSceneCall
    /\ prep = NoPrep
    /\ job = NoJob
    /\ scriptCall \in [pc : {"called"}, templates : TemplateDicts,
                       video_category : Categories, chat : ChatOutcomes,
                       ret : {NoReturn}]
    /\ scaleCall = NoScaleCall
    /\ speakerCall = NoSpeakerCall

NextScript == GenerateAdScriptCall

SpecScript == InitScript /\ [][NextScript]_vars

(***************************************************************************)
(* DigitalHumanService._prepare_workflow: the scaler node                  *)
(***************************************************************************)
\* target_width and target_height: 0 for None, the lengths around the limit and
\* the edges of the usual frame sizes
EdgeLengths ==
    {0, 1} \cup ((MIN_EDGE_LIMIT - 3)..(MIN_EDGE_LIMIT + MaxEdgeOver))
        \cup {720, 1074, 1080, 1280, 1920}

\* 2^k mod m
RECURSIVE Pow2Mod(_, _)
Pow2Mod(k, m) == IF k = 0 THEN 1 % m ELSE (2 * Pow2Mod(k - 1, m)) % m

\* the least j with a * 2^j >= b
RECURSIVE Shift(_, _)
Shift(a, b) == IF a >= b THEN 0 ELSE 1 + Shift(2 * a, b)

\* the largest L with 2^L <= n, for n >= 1
RECURSIVE Log2Floor(_)
Log2Floor(n) == IF n < 2 THEN 0 ELSE 1 + Log2Floor(n \div 2)

\* lines 239-241 for min_edge > MIN_EDGE_LIMIT, in IEEE-754 double arithmetic:
\*   scale_ratio = MIN_EDGE_LIMIT / original_min_edge
\*   int(original_max_edge * scale_ratio)
\* The quotient is rounded to 53 significant bits: with e = 52 + j its
\* significand is 480 * 2^e / min_edge rounded to the nearest integer, off by
\* d / min_edge (a tie does not occur for these sizes).  The product is
\* N + s/min_edge + max_edge * d / (min_edge * 2^e), with N and s the quotient and
\* remainder of 480 * max_edge by min_edge, and is rounded again.  The result
\* falls below the integer N exactly when s = 0, d < 0 and the deficit exceeds half
\* the spacing 2^(L - 52) of the doubles below N.
int_of_scaled_edge(max_edge, min_edge) ==
    LET j == Shift(MIN_EDGE_LIMIT, min_edge)
        e == 52 + j
        rem == (MIN_EDGE_LIMIT * Pow2Mod(e, min_edge)) % min_edge
        d == (IF 2 * rem > min_edge THEN min_edge ELSE 0) - rem
        N == (MIN_EDGE_LIMIT * max_edge) \div min_edge
        s == (MIN_EDGE_LIMIT * max_edge) % min_edge
        L == Log2Floor(N - 1)
    IN  IF s = 0 /\ d < 0 /\ max_edge * (0 - d) > min_edge * 2^(j - 1 + L)
        THEN N - 1
        ELSE N

\* lines 227-252: what the ImageScaleByAspectRatio node gets
PrepareScalerNode ==
    /\ scaleCall.pc = "called"
    /\ LET target_width == scaleCall.target_width
           target_height == scaleCall.target_height
           original_min_edge == Min(target_width, target_height)
           original_max_edge == Max(target_width, target_height)
       IN  IF target_width = 0 \/ target_height = 0
           THEN scaleCall' = [scaleCall EXCEPT !.pc = "returned"]
           ELSE IF original_min_edge > MIN_EDGE_LIMIT
           THEN scaleCall' = [scaleCall EXCEPT
                                !.pc = "returned", !.written = TRUE, !.capped = TRUE,
                                !.scale_to_length =
                                    int_of_scaled_edge(original_max_edge,
                                                       original_min_edge)]
           ELSE scaleCall' = [scaleCall EXCEPT
                                !.pc = "returned", !.written = TRUE,
                                !.scale_to_length = original_max_edge]
    /\ UNCHANGED <<pipelineVars, req, poll, scriptCall, speakerCall, job, prep, sceneCall, callerVars>>

InitScale ==
    /\ PipelineIdle
    /\ req = NoRequest
    /\ poll = NoPoll
    /\ batch = NoBatch
    /\ app = NoApp
    /\ sceneCall = NoSceneCall
    /\ prep = NoPrep
    /\ job = NoJob
    /\ scriptCall = NoScriptCall
    /\ scaleCall \in [pc : {"called"}, target_width : EdgeLengths,
                      target_height : EdgeLengths, written : {FALSE},
                      capped : {FALSE}, scale_to_length : {0}]
    /\ speakerCall = NoSpeakerCall

NextScale == PrepareScalerNode

SpecScale == InitScale /\ [][NextScale]_vars

(***************************************************************************)
(* SpeakerDetector.is_main_speaker_in_frame                                *)
(***************************************************************************)
\* frame.shape[:2]: a landscape, a portrait and a square frame, in units of 80
\* pixels
Frames == {[w |-> 16, h |-> 8], [w |-> 8, h |-> 16], [w |-> 8, h |-> 8]}

\* a detected face: its centre at a quarter step of the frame, its area
FacesIn(frame) ==
    [center_x : {(k * frame.w) \div 4 : k \in 0..4},
     center_y : {(k * frame.h) \div 4 : k \in 0..4},
     area : 1..2]

\* speaker_profile.avg_position, normalized to the frame, in quarters
AvgPositions == [x : 1..2, y : 1..2]

\* line 331: max(faces, key=lambda f: f.area) returns the first face of the
\* largest area
LargestFace(faces) ==
    CHOOSE i \in 1..Len(faces) :
        /\ \A j \in 1..Len(faces) : faces[j].area <= faces[i].area
        /\ \A j \in 1..(i - 1) : faces[j].area < faces[i].area

\* lines 334-346: face_x = x / frame_w, face_y = y / frame_w, and
\* sqrt(dx^2 + dy^2) < 0.25; with avg_position in quarters dx is X / (4 * frame_w)
\* and dy is Y / (4 * frame_w), so the test is X^2 + Y^2 < frame_w^2.  Every
\* quantity is a multiple of a power of two, so the doubles are exact.
NearProfile(face, frame, avg_position) ==
    LET frame_w == frame.w
        X == 4 * face.center_x - avg_position.x * frame_w
        Y == 4 * face.center_y - avg_position.y * frame_w
    IN  X * X + Y * Y < frame_w * frame_w

\* is_main_speaker_in_frame, lines 323-348
IsMainSpeakerInFrame ==
    /\ speakerCall.pc = "called"
    /\ IF speakerCall.faces = <<>>
       THEN speakerCall' = [speakerCall EXCEPT !.pc = "returned"]
       ELSE LET best_face == LargestFace(speakerCall.faces)
                is_main_speaker == NearProfile(speakerCall.faces[best_face],
                                               speakerCall.frame,
                                               speakerCall.avg_position)
            IN  speakerCall' = [speakerCall EXCEPT
                                  !.pc = "returned",
                                  !.is_main_speaker = is_main_speaker,
                                  !.best_face = IF is_main_speaker THEN best_face ELSE 0]
    /\ UNCHANGED <<pipelineVars, req, poll, scriptCall, scaleCall, job, prep, sceneCall, callerVars>>

InitSpeaker ==
    /\ PipelineIdle
    /\ req = NoRequest
    /\ poll = NoPoll
    /\ batch = NoBatch
    /\ app = NoApp
    /\ sceneCall = NoSceneCall
    /\ prep = NoPrep
    /\ job = NoJob
    /\ scriptCall = NoScriptCall
    /\ scaleCall = NoScaleCall
    /\ \E frame \in Frames :
         speakerCall \in [pc : {"called"}, frame : {frame},
                          faces : SeqsUpTo(FacesIn(frame), MaxFaces),
                          avg_position : AvgPositions, is_main_speaker : {FALSE},
                          best_face : {0}]

NextSpeaker == IsMainSpeakerInFrame

SpecSpeaker == InitSpeaker /\ [][NextSpeaker]_vars

(***************************************************************************)
(* Ad selection                                                            *)
(***************************************************************************)
\* positions of the enabled ads of the catalog that was read
EnabledAt == {i \in 1..Len(catalog) : catalog[i].enabled}

\* positions of the enabled ads with a target scenario inside the theme
MatchingAt ==
    {i \in EnabledAt :
        \E k \in 1..Len(catalog[i].target_scenarios) :
            IsSubstring(catalog[i].target_scenarios[k], theme)}

AdSelectionDone == \E k \in 1..Len(started) : started[k] = "ad_selection"

\* C21: select_ad_for_video returns the first enabled ad, in catalog order, with a
\* target scenario that is a substring of the theme; without a match the enabled
\* ad with the smallest priority number; None exactly when no ad is enabled, and
\* process_video then fails with "no ad available".  A disabled ad is never
\* returned.
C21_SelectAd ==
    AdSelectionDone =>
        /\ ad = NoAd <=> EnabledAt = {}
        /\ ad # NoAd => ad.enabled /\ \E i \in EnabledAt : ad = catalog[i]
        /\ MatchingAt # {} =>
              \E i \in MatchingAt : ad = catalog[i] /\ \A j \in MatchingAt : i <= j
        /\ (MatchingAt = {} /\ EnabledAt # {}) =>
              \A j \in EnabledAt : ad.priority <= catalog[j].priority
        /\ EnabledAt = {} =>
              /\ pc = "done"
              /\ result.returned /\ ~result.success
              /\ result.error_message = "no ad available"
              /\ adScript = None
        /\ EnabledAt # {} => raisedAt # "ad_selection"

\* the second ad matches the theme and is selected although the first one is
\* enabled and has the smaller priority number
C21_Witness ==
    /\ AdSelectionDone
    /\ Len(catalog) = 2
    /\ catalog[1].enabled /\ catalog[1].priority = 1 /\ 1 \notin MatchingAt
    /\ catalog[2].priority = 2 /\ 2 \in MatchingAt
    /\ ad = catalog[2]
    /\ pc = "ad_copy"

\* every scenario entry of the ad is the empty string, or it has none
OnlyEmptyScenarios(a) ==
    \A k \in 1..Len(a.target_scenarios) : a.target_scenarios[k] = <<>>

\* positions of the enabled ads with a non-empty target scenario inside the theme
NonEmptyMatchingAt ==
    {i \in EnabledAt :
        \E k \in 1..Len(catalog[i].target_scenarios) :
            /\ catalog[i].target_scenarios[k] # <<>>
            /\ IsSubstring(catalog[i].target_scenarios[k], theme)}

\* C22: an empty target_scenarios entry matches no theme: an enabled ad whose
\* scenario list is empty or holds only empty strings is selected only through the
\* smallest-priority fallback, that is when no enabled ad matches the theme and it
\* has the smallest priority number of the enabled ads.
C22_EmptyScenarioMatchesNothing ==
    (AdSelectionDone /\ ad # NoAd /\ OnlyEmptyScenarios(ad)) =>
        /\ NonEmptyMatchingAt = {}
        /\ \A j \in EnabledAt : ad.priority <= catalog[j].priority

(***************************************************************************)
(* The ad copy                                                             *)
(***************************************************************************)
\* the template the call is to fall back on: the first of the video category,
\* else the first of the general ones, else None
ExpectedTemplate ==
    LET own == scriptCall.templates[scriptCall.video_category]
        general == scriptCall.templates["general"]
    IN  IF own # <<>> THEN [category |-> scriptCall.video_category, text |-> own[1]]
        ELSE IF general # <<>> THEN [category |-> "general", text |-> general[1]]
        ELSE NoTemplate

ScriptCallEnded == scriptCall.pc \in {"returned", "raised"}

\* C23 as stated: generate_ad_script never raises; it returns the model text
\* unchanged when its length is between AD_SCRIPT_MIN_LENGTH and
\* AD_SCRIPT_MAX_LENGTH, its first AD_SCRIPT_MAX_LENGTH characters when it is
\* longer, and the template when it is shorter or the chat call fails.
C23_ScriptFromModelText ==
    ScriptCallEnded =>
        LET chat == scriptCall.chat
            ret == scriptCall.ret
            n == len(chat.text)
        IN  /\ scriptCall.pc = "returned"
            /\ (chat.kind = "content" /\ AD_SCRIPT_MIN_LENGTH <= n
                    /\ n <= AD_SCRIPT_MAX_LENGTH) =>
                  ret.kind = "text" /\ ret.text = chat.text
            /\ (chat.kind = "content" /\ n > AD_SCRIPT_MAX_LENGTH) =>
                  ret.kind = "text" /\ ret.text = Prefix(chat.text, AD_SCRIPT_MAX_LENGTH)
            /\ (chat.kind # "content" \/ n < AD_SCRIPT_MIN_LENGTH) =>
                  ret.kind = "template" /\ ret.template = ExpectedTemplate

\* C23: generate_ad_script raises nothing but a KeyboardInterrupt of the chat
\* call; with s the model text without its leading and trailing whitespace, it
\* returns s when AD_SCRIPT_MIN_LENGTH <= len(s) <= AD_SCRIPT_MAX_LENGTH, the first
\* AD_SCRIPT_MAX_LENGTH characters of s when s is longer, and the ad's template for
\* the video category (the general one when the category has none, None when
\* there is neither) when s is shorter, the answer has no content or the chat
\* call raises an Exception.
C23_ScriptFromStrippedText ==
    ScriptCallEnded =>
        LET chat == scriptCall.chat
            ret == scriptCall.ret
            n == chat.text.body
        IN  /\ scriptCall.pc = "raised" <=> chat.kind = "interrupt"
            /\ scriptCall.pc = "raised" => ret.raised = "KeyboardInterrupt"
            /\ (chat.kind = "content" /\ AD_SCRIPT_MIN_LENGTH <= n
                    /\ n <= AD_SCRIPT_MAX_LENGTH) =>
                  /\ ret.kind = "text"
                  /\ ret.text = [lead |-> 0, body |-> n, trail |-> 0]
            /\ (chat.kind = "content" /\ n > AD_SCRIPT_MAX_LENGTH) =>
                  /\ ret.kind = "text"
                  /\ ret.text = [lead |-> 0, body |-> AD_SCRIPT_MAX_LENGTH, trail |-> 0]
            /\ (chat.kind \in {"no content", "error"}
                    \/ (chat.kind = "content" /\ n < AD_SCRIPT_MIN_LENGTH)) =>
                  /\ ret.kind = "template"
                  /\ ret.template = ExpectedTemplate

\* an answer of AD_SCRIPT_MIN_LENGTH characters with a space before it came back
\* without the space
C23_Witness ==
    /\ scriptCall.pc = "returned"
    /\ scriptCall.chat.kind = "content"
    /\ scriptCall.chat.text = [lead |-> 1, body |-> AD_SCRIPT_MIN_LENGTH, trail |-> 0]
    /\ scriptCall.ret.kind = "text"
    /\ scriptCall.ret.text = [lead |-> 0, body |-> AD_SCRIPT_MIN_LENGTH, trail |-> 0]

WindowComputed == \E k \in 1..Len(started) : started[k] = "reference_audio"

\* C25: for a chosen insertion time t with 0 <= t <= D and D >= MIN_VIDEO_DURATION
\* the reference window satisfies 0 <= clip_start < clip_end <= D and
\* 5 <= clip_end - clip_start <= 10, and it is exactly 5 seconds long at t = 0 and
\* at t = D.
C25_ReferenceWindowBounds ==
    (WindowComputed /\ 0 <= insertionTime /\ insertionTime <= duration
        /\ duration >= MIN_VIDEO_DURATION) =>
        /\ 0 <= refWindow.clip_start
        /\ refWindow.clip_start < refWindow.clip_end
        /\ refWindow.clip_end <= duration
        /\ 5 <= refWindow.clip_end - refWindow.clip_start
        /\ refWindow.clip_end - refWindow.clip_start <= 10
        /\ insertionTime \in {0, duration} =>
              refWindow.clip_end - refWindow.clip_start = 5

\* the insertion time is the end of the video and the last five seconds were cut
C25_Witness ==
    /\ pc = "refsep"
    /\ insertionTime = duration
    /\ refWindow = [clip_start |-> duration - 5, clip_end |-> duration]

(***************************************************************************)
(* The scaler node                                                         *)
(***************************************************************************)
\* C26: for target sizes W, H > 0 the value written to scale_to_length is max(W,H)
\* when min(W,H) <= 480 and floor(max(W,H) * 480 / min(W,H)) when min(W,H) > 480;
\* the capping branch is taken exactly when min(W,H) > 480.
C26_ScaleToLength ==
    (scaleCall.pc = "returned" /\ scaleCall.target_width > 0
        /\ scaleCall.target_height > 0) =>
        LET lo == Min(scaleCall.target_width, scaleCall.target_height)
            hi == Max(scaleCall.target_width, scaleCall.target_height)
        IN  /\ scaleCall.written
            /\ scaleCall.capped <=> lo > 480
            /\ lo <= 480 => scaleCall.scale_to_length = hi
            /\ lo > 480 => scaleCall.scale_to_length = (hi * 480) \div lo

C29_AcceptedIffNearProfile ==
    speakerCall.pc = "returned" =>
        LET faces == speakerCall.faces
            w == speakerCall.frame.w
            h == speakerCall.frame.h
            avg == speakerCall.avg_position
            near(f) ==
                LET X == 4 * f.center_x - avg.x * w
                    Y == 4 * f.center_y - avg.y * h
                IN  X * X * h * h + Y * Y * w * w < w * w * h * h
        IN  speakerCall.is_main_speaker <=>
                /\ faces # <<>>
                /\ \E i \in 1..Len(faces) :
                      /\ \A j \in 1..Len(faces) : faces[j].area <= faces[i].area
                      /\ \A j \in 1..(i - 1) : faces[j].area < faces[i].area
                      /\ near(faces[i])

(***************************************************************************)
(* The tie-break among the scored candidates                               *)
(***************************************************************************)
\* the scored entries that the tie-break rule prefers: the largest score, then the
\* smallest priority number, then the earliest time
Preferred(scored) ==
    LET entries == {scored[k] : k \in 1..Len(scored)}
        top == {e \in entries : \A f \in entries : f.score <= e.score}
        first == {e \in top : \A f \in top : e.point.priority <= f.point.priority}
    IN  {e \in first : \A f \in first : e.point.time <= f.point.time}

\* C30: when several accepted candidates share the maximal score, the one chosen has
\* the smallest priority number among them and, among those, the earliest time,
\* whatever the order of the planner's list.
C30_TieBreak ==
    [][(pc = "scan" /\ pc' = "refclip" /\ scan.scored # <<>>)
          => \E e \in Preferred(scan.scored) : insertionPoint' = e.point]_vars

(***************************************************************************)
(* ComfyUIClient.run_workflow_and_download(workflow, output_node_id,       *)
(* output_path, timeout, file_type): submit_workflow, wait_for_completion  *)
(* with get_status, download_file.  The clock job.now counts the seconds   *)
(* since start_time.                                                       *)
(***************************************************************************)
\* what _request hands to its caller: a response below 500, or the exception it
\* raised
RequestResults ==
    {Response(c) : c \in {c \in StatusCodes : ~ServerError(c)}}
        \cup {Raised("HTTPError"), Raised("KeyboardInterrupt")}

\* the body of an answer to POST /prompt: not JSON, or an object with or without
\* a non-empty node_errors and with or without prompt_id
SubmitBodies ==
    {[json |-> FALSE, node_errors |-> FALSE, prompt_id |-> FALSE]}
        \cup [json : {TRUE}, node_errors : BOOLEAN, prompt_id : BOOLEAN]

\* status.status.status_str; "absent" when the key is missing
StatusStrings == {"absent", "pending", "running", "success", "error", "unknown"}

\* outputs[output_node_id][file_type]: a list with a file, an empty list, or no
\* such key
NodeOutputs == {"file", "empty", "absent"}

\* the body of an answer to GET /history/<prompt_id>: not JSON, an object without
\* an entry for the job, or an object with one
StatusBodies ==
    {[json |-> FALSE, entry |-> FALSE, status_str |-> "absent", output |-> "absent"],
     [json |-> TRUE, entry |-> FALSE, status_str |-> "absent", output |-> "absent"]}
        \cup [json : {TRUE}, entry : {TRUE}, status_str : StatusStrings \ {"success"},
              output : {"absent"}]
        \cup [json : {TRUE}, entry : {TRUE}, status_str : {"success"},
              output : NodeOutputs]

NoBody == [json |-> FALSE]

\* node errors never looked at
HasNodeErrors_ignored(body) == FALSE

\* line 109: `if result.get('node_errors')`
HasNodeErrors(body) == body.node_errors

\* the job record after a request of kind op that ended as r with body b
Requested(op, r, b) ==
    [job EXCEPT !.requests = @ + 1,
                !.last = [op |-> op, status |-> r.status,
                          body |-> IF r.kind = "response" THEN b ELSE NoBody]]

JobRaises(j, exc) == [j EXCEPT !.pc = "raised", !.raised = exc]

\* lines 278 and 93-116: submit_workflow
SubmitWorkflow ==
    /\ job.pc = "submit"
    /\ \E r \in RequestResults, b \in SubmitBodies :
         LET j == Requested("submit", r, b)
         IN  job' = IF r.kind # "response" THEN JobRaises(j, r.kind)
                    ELSE IF ~b.json THEN JobRaises(j, "JSONDecodeError")
                    ELSE IF HasNodeErrors(b) THEN JobRaises(j, "Exception")
                    ELSE IF ~b.prompt_id THEN JobRaises(j, "KeyError")
                    ELSE [j EXCEPT !.pc = "check"]
    /\ UNCHANGED <<pipelineVars, req, poll, scriptCall, scaleCall, speakerCall, prep, sceneCall, callerVars>>

\* lines 169-201 and, once the status is success, lines 284-289: one pass of
\* `while True` up to the sleep
PollJob ==
    /\ job.pc = "check"
    /\ IF TimedOut(job.now, job.timeout)
       THEN job' = JobRaises(job, "TimeoutError")
       ELSE \E r \in RequestResults, b \in StatusBodies, d \in PollDurations :
              LET j == [Requested("status", r, b) EXCEPT !.polls = @ + 1,
                                                         !.now = @ + d]
              IN  job' =
                    IF r.kind # "response" THEN JobRaises(j, r.kind)
                    ELSE IF ~b.json THEN JobRaises(j, "JSONDecodeError")
                    ELSE IF ~b.entry THEN [j EXCEPT !.pc = "sleep"]
                    ELSE IF b.status_str = "success"
                    THEN LET k == [j EXCEPT !.success_seen = TRUE]
                         IN  IF b.output = "absent" THEN JobRaises(k, "Exception")
                             ELSE IF b.output = "empty" THEN JobRaises(k, "IndexError")
                             ELSE [k EXCEPT !.pc = "download"]
                    ELSE IF b.status_str = "error" THEN JobRaises(j, "Exception")
                    ELSE [j EXCEPT !.pc = "sleep"]
    /\ UNCHANGED <<pipelineVars, req, poll, scriptCall, scaleCall, speakerCall, prep, sceneCall, callerVars>>

\* lines 179 and 199: time.sleep(check_interval); lines 203-207 pass a
\* KeyboardInterrupt on
SleepJob ==
    /\ job.pc = "sleep"
    /\ \E o \in {"ok", "interrupt"} :
         job' = IF o = "ok"
                THEN [job EXCEPT !.pc = "check", !.now = @ + CHECK_INTERVAL]
                ELSE JobRaises(job, "KeyboardInterrupt")
    /\ UNCHANGED <<pipelineVars, req, poll, scriptCall, scaleCall, speakerCall, prep, sceneCall, callerVars>>

\* lines 292-298 and 229-251: download_file writes response.content to output_path
DownloadFile ==
    /\ job.pc = "download"
    /\ \E r \in RequestResults :
         LET j == [Requested("download", r, NoBody) EXCEPT !.downloads = @ + 1]
         IN  job' = IF r.kind # "response" THEN JobRaises(j, r.kind)
                    ELSE [j EXCEPT !.pc = "returned", !.saved = TRUE]
    /\ UNCHANGED <<pipelineVars, req, poll, scriptCall, scaleCall, speakerCall, prep, sceneCall, callerVars>>

InitJob ==
    /\ PipelineIdle
    /\ req = NoRequest
    /\ poll = NoPoll
    /\ batch = NoBatch
    /\ app = NoApp
    /\ sceneCall = NoSceneCall
    /\ prep = NoPrep
    /\ scriptCall = NoScriptCall
    /\ scaleCall = NoScaleCall
    /\ speakerCall = NoSpeakerCall
    /\ \E t \in 0..MaxTimeout : job = [NoJob EXCEPT !.pc = "submit", !.timeout = t]

NextJob ==
    \/ SubmitWorkflow
    \/ PollJob
    \/ SleepJob
    \/ DownloadFile

SpecJob == InitJob /\ [][NextJob]_vars

\* the step is a request of kind op
Requests(op) == job'.requests = job.requests + 1 /\ job'.last.op = op

\* C31: a 4xx response to a submit or status request makes the client operation
\* fail at once; a 4xx answer to a status poll is never taken for a pending job and
\* polled again.
C31_ClientErrorIsTerminal ==
    [][((Requests("submit") \/ Requests("status")) /\ job'.last.status \in 400..499)
          => job'.pc = "raised"]_vars

\* C32: a status whose status_str is present but is none of pending, running,
\* success, error is rejected by wait_for_completion instead of being polled again.
C32_UnknownStatusRejected ==
    [][(Requests("status") /\ job'.last.body.json /\ job'.last.body.entry
            /\ job'.last.body.status_str = "unknown")
          => job'.pc = "raised"]_vars

\* C33: a submission that reports node_errors is rejected with no status poll and no
\* download; a download is requested only after a success status was observed; the
\* call fails without downloading when the output node has no output of the
\* requested kind.
C33_DownloadOnlyAfterSuccess ==
    /\ (job.last.op = "submit" /\ job.last.body.json /\ job.last.body.node_errors) =>
          job.pc = "raised" /\ job.polls = 0 /\ job.downloads = 0
    /\ job.pc \in {"check", "sleep"} => job.downloads = 0
    /\ (job.pc = "download" \/ job.downloads > 0 \/ job.saved) =>
          /\ job.success_seen
          /\ job.polls > 0
    /\ (job.last.op = "status" /\ job.last.body.json
            /\ job.last.body.status_str = "success" /\ job.last.body.output # "file") =>
          job.pc = "raised" /\ job.downloads = 0 /\ ~job.saved

\* the file was downloaded after two polls
C33_Witness ==
    /\ job.pc = "returned"
    /\ job.saved
    /\ job.polls = 2
    /\ job.success_seen

\* a submission with node errors was rejected
C33_WitnessNodeErrors ==
    /\ job.pc = "raised"
    /\ job.last.op = "submit"
    /\ job.last.body.json
    /\ job.last.body.node_errors
    /\ job.raised = "Exception"

(***************************************************************************)
(* _prepare_workflow of ImageCleanerService, VoiceCloneService and         *)
(* DigitalHumanService.  A template is the sequence of its nodes; a node   *)
(* is a dict with a class_type and possibly an inputs map, or not a dict.  *)
(***************************************************************************)
GenerativeStages == {"image_cleanup", "voice_clone", "digital_human"}

\* the class types the three functions test for, one they do not, and "" for a
\* node without class_type
ClassTypes ==
    {"LoadImage", "TextEncodeQwenImageEdit", "LoadAudio", "MultiLinePromptIndex",
     "IndexTTS2Run", "MultiTalkWav2VecEmbeds", "VHS_VideoCombine",
     "LayerUtility: ImageScaleByAspectRatio V2", "WanVideoImageToVideoMultiTalk",
     "WanVideoDecode", "KSampler", ""}

\* the input a node of the class carries in the shipped templates
FieldOf(class_type) ==
    CASE class_type = "LoadImage" -> "image"
      [] class_type = "TextEncodeQwenImageEdit" -> "prompt"
      [] class_type = "LoadAudio" -> "audio"
      [] class_type = "MultiLinePromptIndex" -> "multi_line_prompt"
      [] class_type = "IndexTTS2Run" -> "emo_vector"
      [] class_type = "MultiTalkWav2VecEmbeds" -> "fps"
      [] class_type = "VHS_VideoCombine" -> "frame_rate"
      [] class_type = "LayerUtility: ImageScaleByAspectRatio V2" -> "scale_to_length"
      [] class_type = "WanVideoImageToVideoMultiTalk" -> "colormatch"
      [] class_type = "WanVideoDecode" -> "normalization"
      [] OTHER -> "image"

\* an inputs map: "seed", and the field of the class absent, empty or set
InputsOf(class_type) ==
    {[k \in {"seed"} |-> "old"]}
        \cup {[k \in {"seed", FieldOf(class_type)} |->
                  IF k = "seed" THEN "old" ELSE v] : v \in {"", "old"}}

NotADict == [dict |-> FALSE, class_type |-> "", has_inputs |-> FALSE, inputs |-> <<>>]

Nodes ==
    {NotADict}
        \cup [dict : {TRUE}, class_type : ClassTypes, has_inputs : {FALSE},
              inputs : {<<>>}]
        \cup UNION {[dict : {TRUE}, class_type : {c}, has_inputs : {TRUE},
                     inputs : InputsOf(c)] : c \in ClassTypes}

\* copy.deepcopy replaced by a reference to the cached template
deepcopy_by_reference(template) == [value |-> template, shared |-> TRUE]

\* lines 161 / 154 / 192: copy.deepcopy(self._load_workflow_template())
deepcopy(template) == [value |-> template, shared |-> FALSE]

\* node["inputs"][key] = value
SetInput(node, key, value) ==
    [node EXCEPT !.inputs = [k \in (DOMAIN @) \cup {key} |->
                                IF k = key THEN value ELSE @[k]]]

\* `"inputs" in node and key in node["inputs"]`
HasInput(node, key) == node.has_inputs /\ key \in DOMAIN node.inputs

\* image_cleaner.py lines 164-186: the body of the loop for one node
InjectImageCleanup(node) ==
    IF ~node.dict THEN node
    ELSE IF node.class_type = "LoadImage"
    THEN IF node.has_inputs THEN SetInput(node, "image", "image_filename") ELSE node
    ELSE IF node.class_type = "TextEncodeQwenImageEdit"
    THEN IF node.has_inputs
         THEN IF HasInput(node, "prompt") /\ node.inputs["prompt"] # ""
              THEN SetInput(node, "prompt", "prompt")
              ELSE SetInput(node, "prompt", "negative_prompt")
         ELSE node
    ELSE node

\* voice_clone.py lines 157-181: the body of the loop for one node
InjectVoiceClone(node) ==
    IF ~node.dict THEN node
    ELSE IF node.class_type = "LoadAudio"
    THEN IF node.has_inputs THEN SetInput(node, "audio", "audio_filename") ELSE node
    ELSE IF node.class_type = "MultiLinePromptIndex"
    THEN IF node.has_inputs THEN SetInput(node, "multi_line_prompt", "text") ELSE node
    ELSE node

\* digital_human.py lines 195-267: the body of the loop for one node; sized says
\* that target_width and target_height were given
InjectDigitalHuman(node, sized) ==
    IF ~node.dict THEN node
    ELSE IF node.class_type = "LoadImage"
    THEN IF node.has_inputs THEN SetInput(node, "image", "image_filename") ELSE node
    ELSE IF node.class_type = "LoadAudio"
    THEN IF node.has_inputs THEN SetInput(node, "audio", "audio_filename") ELSE node
    ELSE IF node.class_type = "MultiTalkWav2VecEmbeds"
    THEN IF HasInput(node, "fps") THEN SetInput(node, "fps", "fps") ELSE node
    ELSE IF node.class_type = "VHS_VideoCombine"
    THEN IF HasInput(node, "frame_rate") THEN SetInput(node, "frame_rate", "fps")
         ELSE node
    ELSE IF node.class_type = "LayerUtility: ImageScaleByAspectRatio V2"
    THEN IF sized /\ node.has_inputs
         THEN SetInput(node, "scale_to_length", "scale_to_length")
         ELSE node
    ELSE IF node.class_type = "WanVideoImageToVideoMultiTalk"
    THEN IF node.has_inputs THEN SetInput(node, "colormatch", "hm-mvgd-hm") ELSE node
    ELSE IF node.class_type = "WanVideoDecode"
    THEN IF node.has_inputs THEN SetInput(node, "normalization", "minmax") ELSE node
    ELSE node

Inject(stage, node, sized) ==
    CASE stage = "image_cleanup" -> InjectImageCleanup(node)
      [] stage = "voice_clone" -> InjectVoiceClone(node)
      [] stage = "digital_human" -> InjectDigitalHuman(node, sized)

\* _prepare_workflow: the copy, the loop over its nodes, the return; a write to a
\* copy that shares its nodes with the cached template shows in the template
PrepareWorkflow ==
    /\ prep.pc = "called"
    /\ LET copy == deepcopy(prep.cached)
           workflow == [i \in 1..Len(copy.value) |->
                           Inject(prep.stage, copy.value[i], prep.sized)]
       IN  prep' = [prep EXCEPT !.pc = "returned",
                                !.workflow = workflow,
                                !.cached = IF copy.shared THEN workflow ELSE @]
    /\ UNCHANGED <<pipelineVars, req, poll, scriptCall, scaleCall, speakerCall, job, sceneCall, callerVars>>

InitPrep ==
    /\ PipelineIdle
    /\ req = NoRequest
    /\ poll = NoPoll
    /\ batch = NoBatch
    /\ app = NoApp
    /\ sceneCall = NoSceneCall
    /\ scriptCall = NoScriptCall
    /\ scaleCall = NoScaleCall
    /\ speakerCall = NoSpeakerCall
    /\ job = NoJob
    /\ \E stage \in GenerativeStages, template \in SeqsUpTo(Nodes, MaxNodes),
          sized \in BOOLEAN :
         /\ sized => stage = "digital_human"
         /\ prep = [pc |-> "called", stage |-> stage, sized |-> sized,
                    template |-> template, cached |-> template, workflow |-> <<>>]

NextPrep == PrepareWorkflow

SpecPrep == InitPrep /\ [][NextPrep]_vars

\* the class types and input fields each stage is documented to write
StageTable(stage) ==
    CASE stage = "image_cleanup" ->
           {<<"LoadImage", "image">>, <<"TextEncodeQwenImageEdit", "prompt">>}
      [] stage = "voice_clone" ->
           {<<"LoadAudio", "audio">>, <<"MultiLinePromptIndex", "multi_line_prompt">>}
      [] stage = "digital_human" ->
           {<<"LoadImage", "image">>, <<"LoadAudio", "audio">>,
            <<"MultiTalkWav2VecEmbeds", "fps">>, <<"VHS_VideoCombine", "frame_rate">>,
            <<"LayerUtility: ImageScaleByAspectRatio V2", "scale_to_length">>,
            <<"WanVideoImageToVideoMultiTalk", "colormatch">>,
            <<"WanVideoDecode", "normalization">>}

\* the keys at which two inputs maps differ
ChangedKeys(before, after) ==
    {k \in (DOMAIN before) \cup (DOMAIN after) :
        \/ k \notin DOMAIN before
        \/ k \notin DOMAIN after
        \/ before[k] # after[k]}

\* C34: _prepare_workflow leaves the cached template unchanged, changes only the
\* documented input fields of nodes whose class_type is in the stage's table, leaves
\* every other node equal to the template, and returns whichever class types the
\* template lacks.
C34_InjectionFrame ==
    prep.pc \in {"called", "returned"} =>
        /\ prep.cached = prep.template
        /\ prep.pc = "returned" =>
              /\ Len(prep.workflow) = Len(prep.template)
              /\ \A i \in 1..Len(prep.template) :
                    LET before == prep.template[i]
                        after == prep.workflow[i]
                    IN  \/ after = before
                        \/ /\ before.dict /\ before.has_inputs
                           /\ after = [before EXCEPT !.inputs = after.inputs]
                           /\ \A k \in ChangedKeys(before.inputs, after.inputs) :
                                 <<before.class_type, k>> \in StageTable(prep.stage)

\* a digital-human template with a node that is rewritten and a node of a class the
\* function does not know
C34_Witness ==
    /\ prep.pc = "returned"
    /\ prep.stage = "digital_human"
    /\ Len(prep.template) = 2
    /\ prep.template[1].class_type = "LoadImage"
    /\ prep.workflow[1] # prep.template[1]
    /\ prep.template[2].class_type = "KSampler"

(***************************************************************************)
(* A scene without a main speaker                                          *)
(***************************************************************************)
\* the step scores candidate k
Scores(k) ==
    /\ Len(scan'.scored) = Len(scan.scored) + 1
    /\ scan'.scored[Len(scan'.scored)].point = candidates[k]

\* C35: when scene analysis yields no main speaker, process_video does not abort
\* there: it goes on to candidate scoring, where every candidate whose frame shows a
\* detected face is accepted without a speaker-position check.
C35_NoSpeakerIsRecoverable ==
    [][/\ ("scene" \notin succeeded /\ "scene" \in succeeded' /\ ~profile'.present)
            => (pc' = "scoring" /\ result' = NoResult /\ escaped' = None)
       /\ (pc = "scan" /\ ~profile.present /\ scan'.i = scan.i + 1)
            => (Scores(scan.i) <=> scan'.face_seen)]_vars

\* without a profile the second candidate was scored on a frame that shows a face,
\* after a first one whose frame showed none
C35_Witness ==
    /\ pc = "scan"
    /\ ~profile.present
    /\ "scene" \in succeeded
    /\ scan.i = 3
    /\ scan.face_seen
    /\ Len(scan.scored) = 1

(***************************************************************************)
(* SpeakerDetector.analyze_video_scene with _cluster_faces and             *)
(* _identify_main_speaker.  Face centres are in tenths of the frame, face  *)
(* areas in thousandths of the frame area.  A cluster keeps the sums of    *)
(* its observations: avg_position is (sum_x, sum_y) / appearance_count and *)
(* avg_size is sum_size / appearance_count, the running means of lines     *)
(* 253-257 computed exactly.  position_variance, confidence_avg and the    *)
(* best frame are only logged or handed on and are left out.               *)
(***************************************************************************)
\* the faces one sampled frame can show, already divided by the frame size (lines
\* 232-235)
SceneFaces == [center_x : {3, 4, 5}, center_y : {5}, area : {5, 9, 40}]

\* a second, smaller or equal face beside the first one
Bystanders == {[center_x |-> 3, center_y |-> 5, area |-> 9],
               [center_x |-> 5, center_y |-> 5, area |-> 40]}

\* detect_faces on a sampled frame: no face, one face, or two in either order
SceneFrames ==
    {<<>>} \cup {<<f>> : f \in SceneFaces}
        \cup {<<f, g>> : f \in SceneFaces, g \in Bystanders}
        \cup {<<g, f>> : f \in SceneFaces, g \in Bystanders}

\* a cluster matched on position alone
SameSpeaker_by_position(face, cluster) ==
    LET n == cluster.appearance_count
        dx == n * face.center_x - cluster.sum_x
        dy == n * face.center_y - cluster.sum_y
    IN  dx * dx + dy * dy < 4 * n * n

\* lines 241-250: dist < 0.2 and size_diff < 0.5, where size_diff is
\* abs(face_size - avg_size) / max(avg_size, 0.01)
SameSpeaker(face, cluster) ==
    LET n == cluster.appearance_count
        dx == n * face.center_x - cluster.sum_x
        dy == n * face.center_y - cluster.sum_y
        diff == n * face.area - cluster.sum_size
        abs_diff == IF diff < 0 THEN 0 - diff ELSE diff
    IN  /\ dx * dx + dy * dy < 4 * n * n
        /\ 2 * abs_diff < Max(cluster.sum_size, 10 * n)

\* lines 252-259: the cluster after taking the face in
Merged(cluster, face) ==
    [appearance_count |-> cluster.appearance_count + 1,
     sum_x |-> cluster.sum_x + face.center_x,
     sum_y |-> cluster.sum_y + face.center_y,
     sum_size |-> cluster.sum_size + face.area]

\* lines 271-280: a cluster of one observation
NewCluster(face) ==
    [appearance_count |-> 1, sum_x |-> face.center_x, sum_y |-> face.center_y,
     sum_size |-> face.area]

\* lines 229-280: the clusters after one face-bearing frame
ClusterFace(clusters, faces) ==
    LET face == faces[LargestFace(faces)]
        matching == {k \in 1..Len(clusters) : SameSpeaker(face, clusters[k])}
    IN  IF matching = {}
        THEN Append(clusters, NewCluster(face))
        ELSE LET k == CHOOSE m \in matching : \A o \in matching : m <= o
             IN  [clusters EXCEPT ![k] = Merged(@, face)]

\* lines 82-100 and 222-280 for one sampled frame: an unreadable frame is skipped, a
\* readable one is appended to face_tracks and, if it shows a face, clustered
SampleFrame ==
    /\ sceneCall.pc = "sampling"
    /\ sceneCall.face_tracks < MaxTracks
    /\ \E ret \in BOOLEAN, faces \in SceneFrames :
         sceneCall' =
            IF ~ret THEN [sceneCall EXCEPT !.faces = <<>>]
            ELSE IF faces = <<>>
            THEN [sceneCall EXCEPT !.face_tracks = @ + 1, !.faces = faces]
            ELSE [sceneCall EXCEPT !.face_tracks = @ + 1,
                                   !.frames_with_faces = @ + 1,
                                   !.faces = faces,
                                   !.clusters = ClusterFace(@, faces)]
    /\ UNCHANGED <<pipelineVars, req, poll, scriptCall, scaleCall, speakerCall, job, prep, callerVars>>

\* line 172: max(face_clusters, key=appearance_count), the first of the largest
MainCluster(clusters) ==
    clusters[CHOOSE k \in 1..Len(clusters) :
                /\ \A j \in 1..Len(clusters) :
                      clusters[j].appearance_count <= clusters[k].appearance_count
                /\ \A j \in 1..(k - 1) :
                      clusters[j].appearance_count < clusters[k].appearance_count]

\* the size test dropped
LargeEnough_untested(cluster) == TRUE

\* line 195: not `avg_size < self.min_face_size_ratio`, 0.03
LargeEnough(cluster) == cluster.sum_size >= 30 * cluster.appearance_count

\* line 178: not `appearance_ratio < self.min_appearance_ratio`, 0.5
FrequentEnough(cluster, total) == 2 * cluster.appearance_count >= total

\* _identify_main_speaker, lines 162-209; NoCluster stands for None
identify_main_speaker(face_tracks, clusters) ==
    IF face_tracks = 0 THEN NoCluster
    ELSE IF clusters = <<>> THEN NoCluster
    ELSE LET main_cluster == MainCluster(clusters)
         IN  IF ~FrequentEnough(main_cluster, face_tracks) THEN NoCluster
             ELSE IF ~LargeEnough(main_cluster) THEN NoCluster
             ELSE main_cluster

\* lines 112-149, after the last sample
IdentifySpeaker ==
    /\ sceneCall.pc = "sampling"
    /\ LET speaker_profile == identify_main_speaker(sceneCall.face_tracks,
                                                    sceneCall.clusters)
       IN  sceneCall' = [sceneCall EXCEPT
                           !.pc = "returned",
                           !.speaker_profile = speaker_profile,
                           !.is_single_speaker = speaker_profile # NoCluster]
    /\ UNCHANGED <<pipelineVars, req, poll, scriptCall, scaleCall, speakerCall, job, prep, callerVars>>

InitScene ==
    /\ PipelineIdle
    /\ req = NoRequest
    /\ poll = NoPoll
    /\ batch = NoBatch
    /\ app = NoApp
    /\ scriptCall = NoScriptCall
    /\ scaleCall = NoScaleCall
    /\ speakerCall = NoSpeakerCall
    /\ job = NoJob
    /\ prep = NoPrep
    /\ sceneCall = [NoSceneCall EXCEPT !.pc = "sampling"]

NextScene ==
    \/ SampleFrame
    \/ IdentifySpeaker

SpecScene == InitScene /\ [][NextScene]_vars

\* the clusters of the largest appearance count
LargestClusters(clusters) ==
    {k \in 1..Len(clusters) :
        \A j \in 1..Len(clusters) :
            clusters[j].appearance_count <= clusters[k].appearance_count}

\* appearance_count / total_sampled_frames >= 0.5 and avg_size >= 0.03
PassesTests(cluster, total) ==
    /\ 2 * cluster.appearance_count >= total
    /\ 100 * cluster.sum_size >= 3 * 1000 * cluster.appearance_count

\* C36: whenever analyze_video_scene returns is_single_speaker = true, its
\* speaker_profile is the cluster with the largest appearance count and has
\* appearance_count / total_sampled_frames >= 0.5 and avg_size >= 0.03; in every
\* other case is_single_speaker is false and speaker_profile is None.
C36_SingleSpeakerProfile ==
    sceneCall.pc = "returned" =>
        LET clusters == sceneCall.clusters
            total == sceneCall.face_tracks
        IN  IF sceneCall.is_single_speaker
            THEN \E k \in LargestClusters(clusters) :
                    /\ sceneCall.speaker_profile = clusters[k]
                    /\ PassesTests(clusters[k], total)
            ELSE /\ sceneCall.speaker_profile = NoCluster
                 /\ \/ clusters = <<>>
                    \/ \E k \in LargestClusters(clusters) :
                          ~PassesTests(clusters[k], total)

\* a main speaker seen in two of three frames, beside another cluster
C36_Witness ==
    /\ sceneCall.pc = "returned"
    /\ sceneCall.is_single_speaker
    /\ sceneCall.face_tracks = 3
    /\ Len(sceneCall.clusters) = 2
    /\ sceneCall.speaker_profile.appearance_count = 2

\* a frequent cluster of faces that are too small gives no profile
C36_WitnessTooSmall ==
    /\ sceneCall.pc = "returned"
    /\ ~sceneCall.is_single_speaker
    /\ Len(sceneCall.clusters) = 1
    /\ sceneCall.clusters[1].appearance_count = sceneCall.face_tracks

(***************************************************************************)
(* The clustering pass                                                     *)
(***************************************************************************)
RECURSIVE AppearanceSum(_)
AppearanceSum(clusters) ==
    IF clusters = <<>> THEN 0
    ELSE clusters[1].appearance_count + AppearanceSum(Tail(clusters))

\* the step processes a frame that shows a face
ClustersFrame == sceneCall'.frames_with_faces = sceneCall.frames_with_faces + 1

\* the centre of the face is at distance < 0.2 from the cluster's mean centre
Near(face, cluster) ==
    LET n == cluster.appearance_count
        dx == n * face.center_x - cluster.sum_x
        dy == n * face.center_y - cluster.sum_y
    IN  dx * dx + dy * dy < 4 * n * n

\* |face size - mean size| / mean size < 0.5
RelativeSizeClose(face, cluster) ==
    LET n == cluster.appearance_count
        diff == n * face.area - cluster.sum_size
    IN  /\ 2 * diff < cluster.sum_size
        /\ 2 * (0 - diff) < cluster.sum_size

\* |face size - mean size| / max(mean size, 0.01) < 0.5
FlooredSizeClose(face, cluster) ==
    LET n == cluster.appearance_count
        diff == n * face.area - cluster.sum_size
        scale == IF cluster.sum_size >= 10 * n THEN cluster.sum_size ELSE 10 * n
    IN  /\ 2 * diff < scale
        /\ 2 * (0 - diff) < scale

\* the frame's largest face went into the first cluster that is near and of similar
\* size, or else opened a new cluster
GreedyStep(SizeClose(_, _)) ==
    LET faces == sceneCall'.faces
        old == sceneCall.clusters
        new == sceneCall'.clusters
    IN  \E i \in 1..Len(faces) :
           /\ \A j \in 1..Len(faces) : faces[j].area <= faces[i].area
           /\ LET face == faces[i]
                  fits == {k \in 1..Len(old) : Near(face, old[k]) /\ SizeClose(face, old[k])}
              IN  IF fits = {}
                  THEN /\ Len(new) = Len(old) + 1
                       /\ \A k \in 1..Len(old) : new[k] = old[k]
                       /\ new[Len(new)].appearance_count = 1
                       /\ new[Len(new)].sum_x = face.center_x
                       /\ new[Len(new)].sum_y = face.center_y
                       /\ new[Len(new)].sum_size = face.area
                  ELSE \E k \in fits :
                          /\ \A m \in fits : k <= m
                          /\ Len(new) = Len(old)
                          /\ \A m \in 1..Len(old) : m # k => new[m] = old[m]
                          /\ new[k].appearance_count = old[k].appearance_count + 1
                          /\ new[k].sum_x = old[k].sum_x + face.center_x
                          /\ new[k].sum_y = old[k].sum_y + face.center_y
                          /\ new[k].sum_size = old[k].sum_size + face.area

\* a frame without a face leaves the clusters alone
QuietStep ==
    (sceneCall.pc = "sampling" /\ ~ClustersFrame) =>
        sceneCall'.clusters = sceneCall.clusters

CountsAddUp == AppearanceSum(sceneCall.clusters) = sceneCall.frames_with_faces

\* C37: each sampled frame with a face contributes exactly one observation, its
\* largest face, which is merged into the first existing cluster whose mean centre is
\* at distance < 0.2 and whose relative size difference is < 0.5, or else opens a new
\* cluster; hence the appearance counts always sum to the number of face-bearing
\* frames processed.
C37_GreedyClustering ==
    /\ [][(ClustersFrame => GreedyStep(RelativeSizeClose)) /\ QuietStep]_vars
    /\ []CountsAddUp

\* C37 as amended: the size difference is taken relative to the cluster's mean size
\* or to 0.01 of the frame, whichever is larger.
C37_GreedyClusteringFloored ==
    /\ [][(ClustersFrame => GreedyStep(FlooredSizeClose)) /\ QuietStep]_vars
    /\ []CountsAddUp

\* three face-bearing frames in two clusters, the first of them joined twice
C37_Witness ==
    /\ sceneCall.pc = "sampling"
    /\ sceneCall.frames_with_faces = 3
    /\ Len(sceneCall.clusters) = 2
    /\ sceneCall.clusters[1].appearance_count = 2
    /\ Len(sceneCall.faces) = 2

(***************************************************************************)
(* The ad script handed to the voice-clone stage                           *)
(***************************************************************************)
\* C38: the ad script generate_ad_script returns, which process_video hands to the
\* voice-clone stage unchanged, is always a non-empty string of at most
\* AD_SCRIPT_MAX_LENGTH characters, whatever the chat model answers and whatever the
\* ad's templates are.
C38_ScriptIsBoundedText ==
    scriptCall.pc = "returned" =>
        LET ret == scriptCall.ret
        IN  /\ ret.kind \in {"text", "template"}
            /\ ret.kind = "text" =>
                  /\ len(ret.text) >= 1
                  /\ len(ret.text) <= AD_SCRIPT_MAX_LENGTH
            /\ ret.kind = "template" => ret.template # NoTemplate

(***************************************************************************)
(* A batch directory without videos                                        *)
(***************************************************************************)
\* C39: batch_process on a directory that contains no .mp4 file returns an empty
\* result list without raising.
C39_EmptyBatchReturns ==
    (batch.files = 0 /\ batch.pc \in {"returned", "raised"}) =>
        /\ batch.pc = "returned"
        /\ batch.results = <<>>

(***************************************************************************)
(* The paths of a successful result                                        *)
(***************************************************************************)
\* the files that exist: the output directory and, while it exists, the workspace
ExistingFiles == outputs \cup (IF ws.exists THEN ws.files ELSE {})

====
